---- MODULE Spec2Model ----
(***************************************************************************)
(* State-machine model of funlab-sse: EventManager + ConnectionManager     *)
(* (src/funlab/sse/manager.py) and the event model                         *)
(* (src/funlab/sse/model.py).                                              *)
(*                                                                         *)
(* Threads are modelled by program counters: the distributor thread, the   *)
(* callers of shutdown() and the callers of create_event() (one position   *)
(* per event object).  Every other operation is one atomic action.  Time   *)
(* is a logical clock `now`.                                               *)
(***************************************************************************)
EXTENDS Integers, Sequences, FiniteSets, TLC

(***************************************************************************)
(* Bounds of the model.                                                    *)
(***************************************************************************)
\* capacity of the central queue (constructor argument max_event_queue_size)
MaxEventQueueSize == 1
\* capacity of one mailbox (constructor argument max_events_per_stream)
MaxEventsPerStream == 2
\* per-user connection cap (constructor argument max_connections_per_user)
MaxConnectionsPerUser == 2
\* number of event objects (persistent and raw) ever constructed
MaxEvents == 2
\* the same, in the runs with two concurrent callers of shutdown()
MaxEventsConcurrent == 1
\* number of streams ever registered
MaxStreams == 1
\* the logical clock runs over 0..MaxTime
MaxTime == 2
\* number of add_connection calls in the runs of the ConnectionManager alone
MaxAdmissions == 5
\* number of writes in the runs of one mailbox with a single writer
MaxWrites == 5
\* number of writes of each writer in the runs of one mailbox with two writers
MaxRaceWrites == 2
\* event objects and registered streams in the runs of recovery and mark-read
MaxRecoveryEvents == 2
MaxRecoveryStreams == 2
\* event objects and requests in the runs of the HTTP handler
MaxHandlerEvents == 1
MaxHandlerStreams == 3
\* events distributed in the runs of the fan-out
MaxFanEvents == 4
\* event objects, and purges and sleeps, in the runs of the cleanup thread
MaxCleanupEvents == 1
MaxCleanupLog == 5
\* rows left by an earlier process, and streams opened over them
MaxOldRows == 2
MaxOldRowStreams == 2
\* streams opened in the runs at the ConnectionManager lock
MaxLockStreams == 2
\* event objects and streams in the runs with two users
MaxIsolationEvents == 2
MaxIsolationStreams == 2
\* event objects made in the runs of the connect race
MaxRaceEvents == 1
\* rows in the table, and streams opened, in the runs of the overflowing recovery
MaxOverflowRows == 3
MaxOverflowStreams == 2

Users == {1}
\* the threads that may call shutdown()
ShutdownCallers == {1, 2}
\* None of Python: an id not assigned, an expiry not set, no object
None == 0
\* EventManager._event_classes after SSEService._setup
RegisteredTypes == {"SystemNotification"}
\* the event types streams are opened for
EventTypes == {"SystemNotification"}
\* the users and event types of the runs of the ConnectionManager alone
ConnUsers == {1, 2}
StreamEventTypes == {"SystemNotification", "PriceTick"}
\* the events written in the runs of one mailbox with a single writer
MailboxEvents == {1, 2, 3}
\* the threads that write into a mailbox: the distributor (_distribute_event)
\* and a request thread in _recover_user_events
MailboxWriters == {"distributor", "recovery"}
\* EventPriority values used by the callers of this specification
Priorities == {1}
\* expire_after arguments: None (no expiry) or a positive number of time units
ExpireChoices == {None, 1}

VARIABLES
    now,                        \* datetime.now(timezone.utc)
    store,                      \* table `event`: id -> row
    next_id,                    \* autoincrement of the primary key
    events,                     \* the event objects constructed so far (heap)
    event_queue,                \* EventManager.event_queue (object references)
    lock,                       \* EventManager.lock: its holder, or None
    is_shutting_down,           \* EventManager.is_shutting_down
    user_connections,           \* ConnectionManager.user_connections
    users_connect_time,         \* ConnectionManager.users_connect_time
    eventtype_connection_users, \* ConnectionManager.eventtype_connection_users
    next_sid,                   \* stream ids handed out so far (uuid4 is fresh)
    dist_pc, dist_event,        \* the distributor thread
    sd_pc,                      \* the callers of shutdown()
    sd_queue,                   \* history: the deliverable events queued when shutdown started
    delivered,                  \* history: <<object, stream id>> written by _distribute_event
    max_events,                 \* the number of event objects made in this run
    max_streams,                \* the number of streams registered in this run
    create_error,               \* history: the exceptions create_event calls raised to their callers
    hd,                         \* the requests served by stream_events: position, stream id, unregister calls
    fan,                        \* one pass of _distribute_event over the snapshot of streams: position, event, snapshot, index
    cleanup_log,                \* history: the purge calls and the completed sleeps of the cleanup thread, in order
    cm,                         \* ConnectionManager._lock and the threads at it: holder, positions, history of the accesses to the three maps
    reg,                        \* the calls of register_user_stream in progress: position, user, event type, stream id
    native_enum,                \* the database has a native ENUM type (PostgreSQL, MySQL), not VARCHAR (SQLite)
    cleanup_pc,                 \* the cleanup thread: "sleep" (between two purges) or "dead"
    admitted,                   \* history: per user, the stream ids add_connection gave out, in order
    removed,                    \* history: the users a stream of whom was removed by a caller
    written,                    \* history: the entries written into the mailbox under test, in order
    mw                          \* the threads writing into the mailbox under test

storeVars == <<store, next_id>>
connVars == <<user_connections, users_connect_time, eventtype_connection_users, next_sid>>
distVars == <<dist_pc, dist_event>>
histVars == <<sd_queue, delivered, max_events>>
\* the cleanup thread, the limit of streams, and the state of the
\* specifications of the ConnectionManager and of one mailbox
auxVars == <<max_streams, native_enum, reg, cm, cleanup_log, fan, hd, create_error, cleanup_pc, admitted, removed, written, mw>>
vars == <<now, store, next_id, events, event_queue, lock, is_shutting_down,
          user_connections, users_connect_time, eventtype_connection_users,
          next_sid, dist_pc, dist_event, sd_pc, sd_queue, delivered, max_events,
          max_streams, native_enum, reg, cm, cleanup_log, fan, hd, create_error, cleanup_pc, admitted, removed, written, mw>>

Objs == 1..Len(events)

(***************************************************************************)
(* The event model (model.py).                                             *)
(***************************************************************************)
\* EventBase.is_expired / EventEntity.is_expired: expired_at set and now past it
IsExpired(expired_at, t) == expired_at # None /\ t > expired_at

\* a RawEventMessage has __slots__ = ('event_type', '_data'): reading
\* is_read, is_expired or target_userid of it raises AttributeError
HasEventAttrsDuck(o) == TRUE

\* only EventBase objects have is_read / is_expired / target_userid attributes
HasEventAttrs(o) == events[o].kind = "event"

\* a test that lets every event pass
IsDeliverableAlways(o) == TRUE

\* `not event.is_read and not event.is_expired` of an EventBase object
IsDeliverable(o) == ~events[o].is_read /\ ~IsExpired(events[o].expired_at, now)

\* EventBase.__init__ as create_event calls it: id None, is_read False,
\* created_at the time of construction (a stamp that grows with every
\* construction).  cr is the position of the create_event call that holds
\* the object.  History: id0, the id given at creation; nsid, the streams
\* opened before the object was made are those with an id below nsid; qn, the
\* object's turn on the central queue (None before it is put there).
NewEvent(u, et, prio, expire_after) ==
    [kind |-> "event", id |-> None, event_type |-> et, target_userid |-> u,
     priority |-> prio, is_read |-> FALSE, is_recovered |-> FALSE,
     created_at |-> Len(events) + 1,
     expired_at |-> IF expire_after # None THEN now + expire_after ELSE None,
     cr |-> "check", id0 |-> None, nsid |-> next_sid, qn |-> None]

\* RawEventMessage.__init__: event_type and the _data dict (id None,
\* is_recovered False, no expiry, no read mark); send_raw_event has returned
NewRawEvent(u, et, prio) ==
    [kind |-> "raw", id |-> None, event_type |-> et, target_userid |-> u,
     priority |-> prio, is_read |-> FALSE, is_recovered |-> FALSE,
     created_at |-> Len(events) + 1, expired_at |-> None,
     cr |-> "ret", id0 |-> None, nsid |-> next_sid, qn |-> None]

\* EventBase.to_entity of event record e returns an entity: it returns None
\* for a read or expired event
HasEntity(e) == ~(e.is_read \/ IsExpired(e.expired_at, now))

\* the entity EventBase.to_entity builds of event record e: a fresh row
\* without id (obj is history: the object the row was made of)
ToEntity(e, o) ==
    [event_type |-> e.event_type,
     target_userid |-> e.target_userid,
     priority |-> e.priority,
     is_read |-> e.is_read,
     created_at |-> e.created_at,
     expired_at |-> e.expired_at,
     obj |-> o]

(***************************************************************************)
(* Initial state: EventManager.__init__ on an empty table, both threads    *)
(* started.                                                                *)
(***************************************************************************)
InitManager ==
    /\ now = 0
    /\ store = <<>>
    /\ next_id = 1
    /\ events = <<>>
    /\ event_queue = <<>>
    /\ lock = None
    /\ is_shutting_down = FALSE
    /\ user_connections = <<>>
    /\ users_connect_time = <<>>
    /\ eventtype_connection_users = [t \in EventTypes |-> {}]
    /\ next_sid = 1
    /\ dist_pc = "inner"
    /\ dist_event = None
    /\ sd_queue = {}
    /\ delivered = {}
    /\ cleanup_pc = "sleep"
    /\ admitted = <<>>
    /\ removed = {}
    /\ written = <<>>
    /\ mw = <<>>

\* one thread calls shutdown()
Init ==
    /\ InitManager
    /\ sd_pc = [c \in {1} |-> "idle"]
    /\ max_events = MaxEvents
    /\ max_streams = MaxStreams
    /\ native_enum = TRUE
    /\ reg = <<>>
    /\ cm = <<>>
    /\ cleanup_log = <<>>
    /\ fan = <<>>
    /\ hd = <<>>
    /\ create_error = {}

\* two threads call shutdown()
InitConcurrentShutdown ==
    /\ InitManager
    /\ sd_pc = [c \in ShutdownCallers |-> "idle"]
    /\ max_events = MaxEventsConcurrent
    /\ max_streams = MaxStreams
    /\ native_enum = TRUE
    /\ reg = <<>>
    /\ cm = <<>>
    /\ cleanup_log = <<>>
    /\ fan = <<>>
    /\ hd = <<>>
    /\ create_error = {}

\* the clock advances (while an expiry time is still ahead: the clock is
\* read only to compare it with expiry times)
Tick ==
    /\ now < MaxTime
    /\ \E o \in Objs : events[o].expired_at # None /\ now <= events[o].expired_at
    /\ now' = now + 1
    /\ UNCHANGED <<storeVars, events, event_queue, lock, is_shutting_down,
                   connVars, distVars, sd_pc, histVars, auxVars>>

(***************************************************************************)
(* The event store (table `event`) as the code uses it.                    *)
(***************************************************************************)
\* event.id after _store_event: entity.id when a row was added
IdAfterStore(e) == IF HasEntity(e) THEN next_id ELSE e.id

\* EventManager._store_event: add the row to_entity() returns, under a new id
StoreEvent(e, o) ==
    /\ store' = (IF HasEntity(e) THEN store @@ (next_id :> ToEntity(e, o)) ELSE store)
    /\ next_id' = (IF HasEntity(e) THEN next_id + 1 ELSE next_id)

\* the where clause written with Python `or`: it selects every row
StaleRowsPythonOr == DOMAIN store

\* the rows clean_up_events selects: is_read == True | expired_at <= now
StaleRows == {i \in DOMAIN store :
                store[i].is_read \/ (store[i].expired_at # None /\ store[i].expired_at <= now)}

\* EventManager.clean_up_events: delete the selected rows
CleanUpEvents == store' = [i \in DOMAIN store \ StaleRows |-> store[i]]

(***************************************************************************)
(* ConnectionManager.                                                      *)
(***************************************************************************)
\* the stream ids of user u (empty when u is no key of user_connections)
StreamsOf(u) == IF u \in DOMAIN user_connections THEN DOMAIN user_connections[u] ELSE {}

\* `target_userid in self.connection_manager.user_connections`
IsOnline(u) == u \in DOMAIN user_connections

\* max in place of min: the stream with the greatest connect time
NewestSid(u) ==
    CHOOSE s \in StreamsOf(u) : \A r \in StreamsOf(u) : r <= s

\* min(user_conns, key=users_connect_time.get(sid, 0)): the first of the
\* streams with the smallest connect time (dict order is insertion order, and
\* stream ids are numbered in insertion order)
OldestSid(u) ==
    LET t(sid) == IF sid \in DOMAIN users_connect_time THEN users_connect_time[sid] ELSE 0
        least == {s \in StreamsOf(u) : \A r \in StreamsOf(u) : t(s) <= t(r)}
    IN  CHOOSE s \in least : \A r \in least : s <= r

\* ConnectionManager._remove_connection_locked, as a function of the three maps
RemoveConnectionLocked(st, u, sid, et) ==
    LET conns1 == IF u \in DOMAIN st.uc /\ sid \in DOMAIN st.uc[u]
                  THEN [st.uc EXCEPT ![u] = [s \in DOMAIN st.uc[u] \ {sid} |-> st.uc[u][s]]]
                  ELSE st.uc
        gone == u \notin DOMAIN conns1 \/ DOMAIN conns1[u] = {}
    IN  [uc |-> IF gone THEN [v \in DOMAIN conns1 \ {u} |-> conns1[v]] ELSE conns1,
         ct |-> [s \in DOMAIN st.ct \ {sid} |-> st.ct[s]],
         eu |-> IF gone THEN [st.eu EXCEPT ![et] = @ \ {u}] ELSE st.eu]

\* ConnectionManager.get_eventtype_users: a copy of the set of event_type
\* (the empty set for a type that is no key)
GetEventtypeUsers(t) ==
    IF t \in DOMAIN eventtype_connection_users THEN eventtype_connection_users[t] ELSE {}

\* the three maps of the ConnectionManager
ConnState == [uc |-> user_connections, ct |-> users_connect_time, eu |-> eventtype_connection_users]

\* ConnectionManager.add_connection: evict the oldest stream at the cap, then
\* insert the new mailbox under the fresh stream id sid; the three maps after
AddConnection(u, et, sid) ==
    LET st1 == IF Cardinality(StreamsOf(u)) >= MaxConnectionsPerUser
               THEN RemoveConnectionLocked(ConnState, u, OldestSid(u), et)
               ELSE ConnState
        old == IF u \in DOMAIN st1.uc THEN st1.uc[u] ELSE <<>>
    IN  [uc |-> [v \in DOMAIN st1.uc \cup {u} |->
                    IF v = u THEN old @@ (sid :> <<>>) ELSE st1.uc[v]],
         ct |-> st1.ct @@ (sid :> sid),
         eu |-> [st1.eu EXCEPT ![et] = @ \cup {u}]]

\* ConnectionManager.remove_connection
RemoveConnection(u, sid, et) ==
    LET st1 == RemoveConnectionLocked(ConnState, u, sid, et)
    IN  /\ user_connections' = st1.uc
        /\ users_connect_time' = st1.ct
        /\ eventtype_connection_users' = st1.eu

\* a removal of all connections that leaves the connect times in place
AfterRemoveAllKeepsTimes(st, us) ==
    LET gone == us \cap DOMAIN st.uc
    IN  [uc |-> [v \in DOMAIN st.uc \ gone |-> st.uc[v]],
         ct |-> st.ct,
         eu |-> [t \in DOMAIN st.eu |-> st.eu[t] \ gone]]

\* ConnectionManager.remove_all_connections for every user of the set us, as
\* a function of the three maps: a user that is no key of user_connections
\* is left alone (early return)
AfterRemoveAll(st, us) ==
    LET gone == us \cap DOMAIN st.uc
        sids == UNION {DOMAIN st.uc[u] : u \in gone}
    IN  [uc |-> [v \in DOMAIN st.uc \ gone |-> st.uc[v]],
         ct |-> [s \in DOMAIN st.ct \ sids |-> st.ct[s]],
         eu |-> [t \in DOMAIN st.eu |-> st.eu[t] \ gone]]

\* ConnectionManager.remove_all_connections for every user of the set us
RemoveAllConnections(us) ==
    LET st1 == AfterRemoveAll(ConnState, us)
    IN  /\ user_connections' = st1.uc
        /\ users_connect_time' = st1.ct
        /\ eventtype_connection_users' = st1.eu

(***************************************************************************)
(* EventManager.create_event, in the three steps other threads can         *)
(* interleave with: construct + _store_event, the online test, _put_event. *)
(***************************************************************************)
\* a create_event that looks the class up after _store_event: the row of an
\* unregistered type is stored before the ValueError
CreateEventUnregisteredStored(u, et, prio, expire_after) ==
    /\ et \notin RegisteredTypes
    /\ create_error' = create_error \cup {"ValueError"}
    /\ StoreEvent(NewEvent(u, et, prio, expire_after), None)
    /\ UNCHANGED <<now, events, event_queue, lock, is_shutting_down, connVars,
                   distVars, sd_pc, histVars, max_streams, native_enum, reg, cm, cleanup_log, fan, hd, cleanup_pc,
                   admitted, removed, written, mw>>

\* lines 215-217: no class is registered under event_type: ValueError, raised
\* before anything is constructed or stored
CreateEventUnregistered(u, et, prio, expire_after) ==
    /\ et \notin RegisteredTypes
    /\ create_error' = create_error \cup {"ValueError"}
    /\ UNCHANGED <<now, storeVars, events, event_queue, lock, is_shutting_down,
                   connVars, distVars, sd_pc, histVars, max_streams, native_enum,
                   reg, cm, cleanup_log, fan, hd, cleanup_pc, admitted, removed, written, mw>>

\* lines 215-229: look the class up, construct the event, _store_event
CreateEvent(u, et, prio, expire_after) ==
    /\ Len(events) < max_events
    /\ et \in RegisteredTypes
    /\ LET o == Len(events) + 1
           e == NewEvent(u, et, prio, expire_after)
       IN  /\ StoreEvent(e, o)
           /\ events' = Append(events, [e EXCEPT !.id = IdAfterStore(e),
                                                 !.id0 = IdAfterStore(e)])
    /\ UNCHANGED <<now, event_queue, lock, is_shutting_down, connVars, distVars,
                   sd_pc, histVars, auxVars>>

\* create_event without the online test: every event goes to _put_event
CreateCheckOnlineNoTest(o) ==
    /\ events[o].kind = "event" /\ events[o].cr = "check"
    /\ events' = [events EXCEPT ![o].cr = "put"]
    /\ UNCHANGED <<now, storeVars, event_queue, lock, is_shutting_down, connVars,
                   distVars, sd_pc, histVars, auxVars>>

\* lines 231-244: the online test; offline: return the event
CreateCheckOnline(o) ==
    /\ events[o].kind = "event" /\ events[o].cr = "check"
    /\ events' = [events EXCEPT ![o].cr =
                     IF IsOnline(events[o].target_userid) THEN "put" ELSE "ret"]
    /\ UNCHANGED <<now, storeVars, event_queue, lock, is_shutting_down, connVars,
                   distVars, sd_pc, histVars, auxVars>>

\* history: the number of puts made on the central queue so far
QueuedSoFar == Cardinality({p \in Objs : events[p].qn # None})

\* _put_event: `with self.lock: self.event_queue.put(event)`.  put() has no
\* timeout: on a full queue the caller waits ("blocked"), holding self.lock,
\* until the queue has room; queue.Full is never raised.  Then the event is
\* returned
CreatePut(o) ==
    /\ events[o].kind = "event" /\ events[o].cr \in {"put", "blocked"}
    /\ events[o].cr = "put" => lock = None
    /\ IF Len(event_queue) < MaxEventQueueSize
       THEN /\ event_queue' = Append(event_queue, o)
            /\ events' = [events EXCEPT ![o].cr = "ret", ![o].qn = QueuedSoFar + 1]
            /\ lock' = None
       ELSE /\ events[o].cr = "put"
            /\ events' = [events EXCEPT ![o].cr = "blocked"]
            /\ lock' = o
            /\ UNCHANGED event_queue
    /\ UNCHANGED <<now, storeVars, is_shutting_down, connVars, distVars,
                   sd_pc, histVars, auxVars>>

\* the value send_raw_event returns for user u: False when u is offline and
\* when put_nowait raises queue.Full
SendRawEventReturns(u) == IsOnline(u) /\ Len(event_queue) < MaxEventQueueSize

\* EventManager.send_raw_event: the raw message is enqueued when the call
\* returns True; nothing changes when it returns False
SendRawEvent(u, et, prio) ==
    /\ Len(events) < max_events
    /\ IF SendRawEventReturns(u)
       THEN /\ events' = Append(events, [NewRawEvent(u, et, prio) EXCEPT !.qn = QueuedSoFar + 1])
            /\ event_queue' = Append(event_queue, Len(events) + 1)
       ELSE UNCHANGED <<events, event_queue>>
    /\ UNCHANGED <<now, storeVars, lock, is_shutting_down, connVars, distVars,
                   sd_pc, histVars, auxVars>>

(***************************************************************************)
(* The wire dict: what the handler passes to json.dumps for a frame.       *)
(***************************************************************************)
\* EventPriority: the name of the member with value p
PriorityName(p) ==
    CASE p = 0 -> "LOW" [] p = 1 -> "NORMAL" [] p = 2 -> "HIGH" [] p = 3 -> "CRITICAL"

\* to_dict() of event object o.  EventBase.to_dict builds a dict of six keys;
\* RawEventMessage.to_dict returns the _data dict made by __init__, which
\* also holds target_userid.  (The payload is not modelled: its key is.)
ToDict(o) ==
    IF events[o].kind = "raw"
    THEN [id |-> None,
          event_type |-> events[o].event_type,
          priority |-> PriorityName(events[o].priority),
          target_userid |-> events[o].target_userid,
          created_at |-> events[o].created_at,
          payload |-> <<>>,
          is_recovered |-> FALSE]
    ELSE [id |-> events[o].id,
          event_type |-> events[o].event_type,
          priority |-> PriorityName(events[o].priority),
          created_at |-> events[o].created_at,
          payload |-> <<>>,
          is_recovered |-> events[o].is_recovered]

(***************************************************************************)
(* Mailboxes: the write policy, distribution and recovery.                 *)
(***************************************************************************)
\* what a mailbox holds for event object o (the object itself in the code;
\* the reader uses event_type and to_dict())
Entry(o) == [obj |-> o, id |-> events[o].id, is_recovered |-> events[o].is_recovered]

\* a full mailbox keeps what it holds: the new event is the one dropped
MailboxWriteKeepOldest(mb, x) ==
    IF Len(mb) < MaxEventsPerStream THEN Append(mb, x) ELSE mb

\* put_nowait below max_events_per_stream, else get_nowait then put_nowait
MailboxWrite(mb, x) ==
    IF Len(mb) < MaxEventsPerStream THEN Append(mb, x) ELSE Append(Tail(mb), x)

\* a distribution that puts the event in front of what the mailbox holds
DistributeEventInFront(o) ==
    LET u == events[o].target_userid
    IN  /\ user_connections' =
              [v \in DOMAIN user_connections |->
                  IF v = u
                  THEN [s \in DOMAIN user_connections[v] |->
                           <<Entry(o)>> \o user_connections[v][s]]
                  ELSE user_connections[v]]
        /\ delivered' = delivered \cup {<<o, s>> : s \in StreamsOf(u)}

\* EventManager._distribute_event: write the event into every mailbox of the
\* snapshot get_user_streams(event.target_userid)
DistributeEvent(o) ==
    LET u == events[o].target_userid
    IN  /\ user_connections' =
              [v \in DOMAIN user_connections |->
                  IF v = u
                  THEN [s \in DOMAIN user_connections[v] |->
                           MailboxWrite(user_connections[v][s], Entry(o))]
                  ELSE user_connections[v]]
        /\ delivered' = delivered \cup {<<o, s>> : s \in StreamsOf(u)}

\* Column(SQLEnum(EventPriority)) persists the NAME of the member.  A native
\* ENUM column compares in the order of declaration (LOW, NORMAL, HIGH,
\* CRITICAL); a VARCHAR column compares the names as strings
\* ("CRITICAL" < "HIGH" < "LOW" < "NORMAL")
PriorityRank(p) ==
    IF native_enum THEN p
    ELSE CASE p = 3 -> 0
           [] p = 2 -> 1
           [] p = 0 -> 2
           [] OTHER -> 3

\* order_by(priority.desc(), created_at.asc()); rows equal in both in id order
RowBefore(i, j) ==
    \/ PriorityRank(store[i].priority) > PriorityRank(store[j].priority)
    \/ store[i].priority = store[j].priority /\ store[i].created_at < store[j].created_at
    \/ store[i].priority = store[j].priority /\ store[i].created_at = store[j].created_at /\ i < j

RECURSIVE SortRows(_)
\* the rows of the set S in the order of the query
SortRows(S) ==
    IF S = {} THEN <<>>
    ELSE LET first == CHOOSE i \in S : \A j \in S \ {i} : RowBefore(i, j)
         IN  <<first>> \o SortRows(S \ {first})

\* a fetch without the filter on target_userid
PendingRowsAnyTarget(u, et) ==
    {i \in DOMAIN store : store[i].event_type = et /\ ~store[i].is_read}

\* the rows _recover_user_events fetches: target, type, unread
PendingRows(u, et) ==
    {i \in DOMAIN store : store[i].target_userid = u /\ store[i].event_type = et
                          /\ ~store[i].is_read}

\* the rows of the fetch that are materialised: not expired, class registered
Recoverable(u, et) ==
    {i \in PendingRows(u, et) : ~IsExpired(store[i].expired_at, now)
                                /\ store[i].event_type \in RegisteredTypes}

RECURSIVE WriteRecovered(_, _)
\* a mailbox after the events of the rows ids (in order) were written to it
WriteRecovered(mb, ids) ==
    IF ids = <<>> THEN mb
    ELSE WriteRecovered(MailboxWrite(mb, [obj |-> None, id |-> Head(ids), is_recovered |-> TRUE]),
                        Tail(ids))

\* a recovery that deletes every row it fetched, delivered or expired
RecoveredStoreDeletesFetched(u, et) ==
    [i \in DOMAIN store \ PendingRows(u, et) |-> store[i]]

\* EventManager._recover_user_events, the table after: the expired rows of
\* the fetch are deleted
RecoveredStore(u, et) ==
    [i \in DOMAIN store \ {j \in PendingRows(u, et) : IsExpired(store[j].expired_at, now)}
        |-> store[i]]

\* a recovery that writes nothing into the mailboxes
RecoveredConnectionsNone(uc, u, et) == uc

\* EventManager._recover_user_events, the mailboxes after: every other row's
\* event is written into every mailbox of get_user_streams(user_id)
RecoveredConnections(uc, u, et) ==
    [v \in DOMAIN uc |->
        IF v = u
        THEN [s \in DOMAIN uc[v] |-> WriteRecovered(uc[v][s], SortRows(Recoverable(u, et)))]
        ELSE uc[v]]

(***************************************************************************)
(* Stream registration and deregistration.                                 *)
(***************************************************************************)
\* EventManager.register_user_stream: add_connection, then recovery
RegisterUserStream(u, et) ==
    /\ next_sid <= max_streams
    /\ LET st1 == AddConnection(u, et, next_sid)
       IN  /\ user_connections' = RecoveredConnections(st1.uc, u, et)
           /\ users_connect_time' = st1.ct
           /\ eventtype_connection_users' = st1.eu
    /\ next_sid' = next_sid + 1
    /\ store' = RecoveredStore(u, et)
    /\ UNCHANGED <<now, next_id, events, event_queue, lock, is_shutting_down,
                   distVars, sd_pc, histVars, auxVars>>

\* unregister_user_stream, called by the handler for a stream id it was given
UnregisterUserStream(u, sid, et) ==
    /\ sid \in StreamsOf(u)
    /\ RemoveConnection(u, sid, et)
    /\ UNCHANGED <<now, storeVars, events, event_queue, lock, is_shutting_down,
                   next_sid, distVars, sd_pc, histVars, auxVars>>

(***************************************************************************)
(* Marking read.                                                           *)
(***************************************************************************)
\* EventManager.set_event_read, by a caller that holds the returned event
SetEventRead(o) ==
    /\ events[o].kind = "event" /\ events[o].cr = "ret"
    /\ ~events[o].is_read
    /\ events' = [events EXCEPT ![o].is_read = TRUE]
    /\ store' = (IF events[o].id \in DOMAIN store
                 THEN [store EXCEPT ![events[o].id].is_read = TRUE]
                 ELSE store)
    /\ UNCHANGED <<now, next_id, event_queue, lock, is_shutting_down, connVars,
                   distVars, sd_pc, histVars, auxVars>>

(***************************************************************************)
(* The distributor thread (_start_event_distributor).                      *)
(***************************************************************************)
\* `while not self.is_shutting_down` after an exception was logged
DistOuter ==
    /\ dist_pc = "outer"
    /\ dist_pc' = (IF is_shutting_down THEN "dead" ELSE "inner")
    /\ UNCHANGED <<now, storeVars, events, event_queue, lock, is_shutting_down,
                   connVars, dist_event, sd_pc, histVars, auxVars>>

\* `while not self.event_queue.empty(): event = self.event_queue.get(timeout=1)`
\* and, on an empty queue, the outer `while not self.is_shutting_down`: the
\* thread ends when the flag is set, else it polls again
DistGet ==
    /\ dist_pc = "inner"
    /\ IF event_queue = <<>>
       THEN /\ is_shutting_down
            /\ dist_pc' = "dead"
            /\ UNCHANGED <<event_queue, dist_event>>
       ELSE /\ dist_event' = Head(event_queue)
            /\ event_queue' = Tail(event_queue)
            /\ dist_pc' = "got"
    /\ UNCHANGED <<now, storeVars, events, lock, is_shutting_down, connVars,
                   sd_pc, histVars, auxVars>>

\* a distributor that marks the event it delivers as read
DistHandleMarksRead ==
    /\ dist_pc = "got"
    /\ dist_event' = None
    /\ IF ~HasEventAttrs(dist_event)
       THEN /\ dist_pc' = "outer"
            /\ UNCHANGED <<user_connections, delivered, events>>
       ELSE /\ dist_pc' = "inner"
            /\ IF IsDeliverable(dist_event)
               THEN /\ DistributeEvent(dist_event)
                    /\ events' = [events EXCEPT ![dist_event].is_read = TRUE]
               ELSE UNCHANGED <<user_connections, delivered, events>>
    /\ UNCHANGED <<now, storeVars, event_queue, lock, is_shutting_down,
                   users_connect_time, eventtype_connection_users, next_sid,
                   sd_pc, sd_queue, max_events, auxVars>>

\* `if event.is_read or event.is_expired: continue` then _distribute_event.
\* On a RawEventMessage the attribute access raises AttributeError, which
\* `except Exception` outside the inner loop logs: the event is dropped
DistHandle ==
    /\ dist_pc = "got"
    /\ dist_event' = None
    /\ IF ~HasEventAttrs(dist_event)
       THEN /\ dist_pc' = "outer"
            /\ UNCHANGED <<user_connections, delivered>>
       ELSE /\ dist_pc' = "inner"
            /\ IF IsDeliverable(dist_event)
               THEN DistributeEvent(dist_event)
               ELSE UNCHANGED <<user_connections, delivered>>
    /\ UNCHANGED <<now, storeVars, events, event_queue, lock, is_shutting_down,
                   users_connect_time, eventtype_connection_users, next_sid,
                   sd_pc, sd_queue, max_events, auxVars>>

(***************************************************************************)
(* The cleanup thread (_start_cleanup_scheduler):                          *)
(*   while not self.is_shutting_down: clean_up_events(); time.sleep(...)   *)
(* One turn is the end of a sleep: the flag is read, then either the       *)
(* thread ends or it purges and sleeps again.                              *)
(***************************************************************************)
CleanupRun ==
    /\ cleanup_pc = "sleep"
    /\ IF is_shutting_down
       THEN /\ cleanup_pc' = "dead"
            /\ UNCHANGED store
       ELSE /\ StaleRows # {}
            /\ CleanUpEvents
            /\ UNCHANGED cleanup_pc
    /\ UNCHANGED <<now, next_id, events, event_queue, lock, is_shutting_down,
                   connVars, distVars, sd_pc, histVars,
                   max_streams, native_enum, reg, cm, cleanup_log, fan, hd, create_error, admitted, removed, written, mw>>

(***************************************************************************)
(* EventManager.shutdown, called by the threads of DOMAIN sd_pc.           *)
(***************************************************************************)
\* `if self.is_shutting_down: return` (the callers enter in the order of
\* their numbers)
ShutdownEnter(c) ==
    /\ sd_pc[c] = "idle"
    /\ \A d \in DOMAIN sd_pc : d < c => sd_pc[d] # "idle"
    /\ sd_pc' = [sd_pc EXCEPT ![c] = IF is_shutting_down THEN "skipped" ELSE "set"]
    /\ UNCHANGED <<now, storeVars, events, event_queue, lock, is_shutting_down,
                   connVars, distVars, histVars, auxVars>>

\* `self.is_shutting_down = True`
ShutdownSetFlag(c) ==
    /\ sd_pc[c] = "set"
    /\ is_shutting_down' = TRUE
    /\ sd_pc' = [sd_pc EXCEPT ![c] = "drain"]
    /\ sd_queue' = IF is_shutting_down THEN sd_queue
                   ELSE {event_queue[i] : i \in {j \in DOMAIN event_queue :
                            HasEventAttrs(event_queue[j]) /\ IsDeliverable(event_queue[j])}}
    /\ UNCHANGED <<now, storeVars, events, event_queue, lock, connVars, distVars,
                   delivered, max_events, auxVars>>

\* one turn of `while not self.event_queue.empty()`: get_nowait, then
\* _store_event when `not event.is_read and not event.is_expired`.  On a
\* RawEventMessage the attribute access raises AttributeError, which only
\* `except queue.Empty` guards: it leaves shutdown
ShutdownDrain(c) ==
    /\ sd_pc[c] = "drain"
    /\ event_queue # <<>>
    /\ LET o == Head(event_queue)
       IN  /\ event_queue' = Tail(event_queue)
           /\ IF ~HasEventAttrs(o)
              THEN /\ sd_pc' = [sd_pc EXCEPT ![c] = "raised"]
                   /\ UNCHANGED <<events, storeVars>>
              ELSE /\ sd_pc' = sd_pc
                   /\ IF IsDeliverable(o)
                      THEN /\ StoreEvent(events[o], o)
                           /\ events' = [events EXCEPT ![o].id = IdAfterStore(events[o])]
                      ELSE UNCHANGED <<events, storeVars>>
    /\ UNCHANGED <<now, lock, is_shutting_down, connVars, distVars, histVars, auxVars>>

\* the queue is empty: remove_all_connections(uid) for every key of
\* user_connections, the joins (bounded waits) and the final clean_up_events()
ShutdownFinish(c) ==
    /\ sd_pc[c] = "drain"
    /\ event_queue = <<>>
    /\ RemoveAllConnections(DOMAIN user_connections)
    /\ CleanUpEvents
    /\ sd_pc' = [sd_pc EXCEPT ![c] = "done"]
    /\ UNCHANGED <<now, next_id, events, event_queue, lock, is_shutting_down,
                   next_sid, distVars, histVars, auxVars>>

Next ==
    \/ Tick
    \/ \E u \in Users, et \in RegisteredTypes, p \in Priorities, x \in ExpireChoices :
          CreateEvent(u, et, p, x)
    \/ \E o \in Objs : CreateCheckOnline(o)
    \/ \E o \in Objs : CreatePut(o)
    \/ \E u \in Users, et \in EventTypes, p \in Priorities : SendRawEvent(u, et, p)
    \/ \E u \in Users, et \in EventTypes : RegisterUserStream(u, et)
    \/ \E u \in Users, sid \in 1..MaxStreams, et \in EventTypes : UnregisterUserStream(u, sid, et)
    \/ \E o \in Objs : SetEventRead(o)
    \/ DistOuter
    \/ DistGet
    \/ DistHandle
    \/ CleanupRun
    \/ \E c \in DOMAIN sd_pc : ShutdownEnter(c)
    \/ \E c \in DOMAIN sd_pc : ShutdownSetFlag(c)
    \/ \E c \in DOMAIN sd_pc : ShutdownDrain(c)
    \/ \E c \in DOMAIN sd_pc : ShutdownFinish(c)

Spec == Init /\ [][Next]_vars

SpecConcurrentShutdown == InitConcurrentShutdown /\ [][Next]_vars

(***************************************************************************)
(* A second EventManager on the same table: SSEService._setup constructs   *)
(* it (table created with checkfirst=True) after the earlier one was shut  *)
(* down.                                                                   *)
(***************************************************************************)
\* a startup purge that takes every row with an expiry time for expired
StartupStaleRowsAnyExpiry ==
    {i \in DOMAIN store : store[i].is_read \/ store[i].expired_at # None}

\* the rows _recover_stored_events selects: is_expired == True | is_read ==
\* True, where the expression of is_expired is expired_at < func.now()
StartupStaleRows ==
    {i \in DOMAIN store :
        store[i].is_read \/ (store[i].expired_at # None /\ store[i].expired_at < now)}

\* EventManager.__init__ on the table the earlier manager left: empty queue
\* and connection tables, the startup purge, both threads started.  The
\* event objects of the earlier manager are out of use (cr "gone")
Restart ==
    /\ \A c \in DOMAIN sd_pc : sd_pc[c] = "done"
    /\ store' = [i \in DOMAIN store \ StartupStaleRows |-> store[i]]
    /\ events' = [o \in DOMAIN events |-> [events[o] EXCEPT !.cr = "gone"]]
    /\ event_queue' = <<>>
    /\ lock' = None
    /\ is_shutting_down' = FALSE
    /\ user_connections' = <<>>
    /\ users_connect_time' = <<>>
    /\ eventtype_connection_users' = [t \in DOMAIN eventtype_connection_users |-> {}]
    /\ dist_pc' = "inner"
    /\ dist_event' = None
    /\ cleanup_pc' = "sleep"
    /\ sd_pc' = [c \in DOMAIN sd_pc |-> "idle"]
    /\ UNCHANGED <<now, next_id, next_sid, histVars, max_streams, native_enum,
                   reg, cm, cleanup_log, fan, hd, create_error, admitted, removed, written, mw>>

NextPurge ==
    \/ Next
    \/ Restart

SpecPurge == Init /\ [][NextPurge]_vars

\* the operations of Next and create_event calls with an event type that no
\* class is registered under
NextCreate ==
    \/ Next
    \/ \E u \in Users, et \in StreamEventTypes, p \in Priorities, x \in ExpireChoices :
          CreateEventUnregistered(u, et, p, x)

SpecCreate == Init /\ [][NextCreate]_vars

(***************************************************************************)
(* The ConnectionManager alone: add_connection, remove_connection and      *)
(* remove_all_connections called for several users and event types.        *)
(***************************************************************************)
InitConnections ==
    /\ now = 0
    /\ store = <<>>
    /\ next_id = 1
    /\ events = <<>>
    /\ event_queue = <<>>
    /\ lock = None
    /\ is_shutting_down = FALSE
    /\ user_connections = <<>>
    /\ users_connect_time = <<>>
    /\ eventtype_connection_users = [t \in StreamEventTypes |-> {}]
    /\ next_sid = 1
    /\ dist_pc = "inner"
    /\ dist_event = None
    /\ sd_pc = [c \in {1} |-> "idle"]
    /\ sd_queue = {}
    /\ delivered = {}
    /\ max_events = 0
    /\ max_streams = MaxAdmissions
    /\ native_enum = TRUE
    /\ reg = <<>>
    /\ cm = <<>>
    /\ cleanup_log = <<>>
    /\ fan = <<>>
    /\ hd = <<>>
    /\ create_error = {}
    /\ cleanup_pc = "sleep"
    /\ admitted = [u \in ConnUsers |-> <<>>]
    /\ removed = {}
    /\ written = <<>>
    /\ mw = <<>>

\* a call of ConnectionManager.add_connection(u, stream, et); the stream id
\* and the event type are what the caller keeps for remove_connection
AddConnectionCall(u, et) ==
    /\ next_sid <= max_streams
    /\ LET st1 == AddConnection(u, et, next_sid)
       IN  /\ user_connections' = st1.uc
           /\ users_connect_time' = st1.ct
           /\ eventtype_connection_users' = st1.eu
    /\ next_sid' = next_sid + 1
    /\ admitted' = [admitted EXCEPT ![u] = Append(@, [sid |-> next_sid, et |-> et])]
    /\ UNCHANGED <<now, storeVars, events, event_queue, lock, is_shutting_down,
                   distVars, sd_pc, histVars,
                   max_streams, native_enum, reg, cm, cleanup_log, fan, hd, create_error, cleanup_pc, removed, written, mw>>

\* a call of ConnectionManager.remove_connection by the holder of the i-th
\* stream of user u, with the stream id and event type of its admission
\* (the stream may have been evicted or removed before)
RemoveConnectionCall(u, i) ==
    /\ i \in DOMAIN admitted[u]
    /\ RemoveConnection(u, admitted[u][i].sid, admitted[u][i].et)
    /\ removed' = removed \cup {u}
    /\ UNCHANGED <<now, storeVars, events, event_queue, lock, is_shutting_down,
                   next_sid, distVars, sd_pc, histVars,
                   max_streams, native_enum, reg, cm, cleanup_log, fan, hd, create_error, cleanup_pc, admitted, written, mw>>

\* a call of ConnectionManager.remove_all_connections(u)
RemoveAllConnectionsCall(u) ==
    /\ RemoveAllConnections({u})
    /\ removed' = removed \cup {u}
    /\ UNCHANGED <<now, storeVars, events, event_queue, lock, is_shutting_down,
                   next_sid, distVars, sd_pc, histVars,
                   max_streams, native_enum, reg, cm, cleanup_log, fan, hd, create_error, cleanup_pc, admitted, written, mw>>

NextConnections ==
    \/ \E u \in ConnUsers, et \in StreamEventTypes : AddConnectionCall(u, et)
    \/ \E u \in ConnUsers, i \in 1..MaxAdmissions : RemoveConnectionCall(u, i)
    \/ \E u \in ConnUsers : RemoveAllConnectionsCall(u)

SpecConnections == InitConnections /\ [][NextConnections]_vars

(***************************************************************************)
(* One mailbox: stream 1 of user 1, a Queue(maxsize=max_events_per_stream).*)
(* First with a single writer and no reader, each write one step; then     *)
(* with two writers and the stream's reader, each queue call one step.     *)
(***************************************************************************)
InitMailbox ==
    /\ now = 0
    /\ store = <<>>
    /\ next_id = 1
    /\ events = <<>>
    /\ event_queue = <<>>
    /\ lock = None
    /\ is_shutting_down = FALSE
    /\ user_connections = (1 :> (1 :> <<>>))
    /\ users_connect_time = (1 :> 1)
    /\ eventtype_connection_users = [t \in EventTypes |-> {1}]
    /\ next_sid = 2
    /\ dist_pc = "inner"
    /\ dist_event = None
    /\ sd_pc = [c \in {1} |-> "idle"]
    /\ sd_queue = {}
    /\ delivered = {}
    /\ max_events = 0
    /\ max_streams = 1
    /\ native_enum = TRUE
    /\ reg = <<>>
    /\ cm = <<>>
    /\ cleanup_log = <<>>
    /\ fan = <<>>
    /\ hd = <<>>
    /\ create_error = {}
    /\ cleanup_pc = "sleep"
    /\ admitted = <<>>
    /\ removed = {}
    /\ written = <<>>
    /\ mw = [w \in MailboxWriters |-> [pc |-> "idle", n |-> 0]]

\* the mailbox under test
Mailbox == user_connections[1][1]

\* a whole write of event x by the only writer (the body of the loop of
\* _distribute_event for this stream)
WriteMailbox(x) ==
    /\ Len(written) < MaxWrites
    /\ user_connections' = [user_connections EXCEPT ![1][1] = MailboxWrite(@, x)]
    /\ written' = Append(written, x)
    /\ UNCHANGED <<now, storeVars, events, event_queue, lock, is_shutting_down,
                   users_connect_time, eventtype_connection_users, next_sid,
                   distVars, sd_pc, histVars,
                   max_streams, native_enum, reg, cm, cleanup_log, fan, hd, create_error, cleanup_pc, admitted, removed, mw>>

NextMailbox == \E x \in MailboxEvents : WriteMailbox(x)

SpecMailbox == InitMailbox /\ [][NextMailbox]_vars

\* the event writer w is writing: its n-th
WriterEvent(w) == <<w, mw[w].n>>

\* what the steps of the writers and of the reader leave alone
MailboxFrame ==
    UNCHANGED <<now, storeVars, events, event_queue, lock, is_shutting_down,
                users_connect_time, eventtype_connection_users, next_sid,
                distVars, sd_pc, histVars,
                max_streams, native_enum, reg, cm, cleanup_log, fan, hd, create_error, cleanup_pc, admitted, removed>>

\* writer w starts a write: `if stream.qsize() < self.max_events_per_stream`
WriterTest(w) ==
    /\ mw[w].pc \in {"idle", "written", "lost", "empty"}
    /\ mw[w].n < MaxRaceWrites
    /\ mw' = [mw EXCEPT ![w] = [pc |-> IF Len(Mailbox) < MaxEventsPerStream
                                       THEN "put" ELSE "get",
                                n |-> mw[w].n + 1]]
    /\ UNCHANGED <<user_connections, written>>
    /\ MailboxFrame

\* `stream.get_nowait()` of the else branch: queue.Empty when the mailbox was
\* emptied since the test; no handler of the write catches it
WriterGet(w) ==
    /\ mw[w].pc = "get"
    /\ IF Mailbox = <<>>
       THEN /\ mw' = [mw EXCEPT ![w].pc = "empty"]
            /\ UNCHANGED user_connections
       ELSE /\ mw' = [mw EXCEPT ![w].pc = "put"]
            /\ user_connections' = [user_connections EXCEPT ![1][1] = Tail(@)]
    /\ UNCHANGED written
    /\ MailboxFrame

\* `stream.put_nowait(event)`: queue.Full when the mailbox was filled since
\* the test; `except queue.Full: pass` ends the write without the event
WriterPut(w) ==
    /\ mw[w].pc = "put"
    /\ IF Len(Mailbox) < MaxEventsPerStream
       THEN /\ mw' = [mw EXCEPT ![w].pc = "written"]
            /\ user_connections' = [user_connections EXCEPT ![1][1] = Append(@, WriterEvent(w))]
            /\ written' = Append(written, WriterEvent(w))
       ELSE /\ mw' = [mw EXCEPT ![w].pc = "lost"]
            /\ UNCHANGED <<user_connections, written>>
    /\ MailboxFrame

\* the stream's reader: `user_stream.get(timeout=10)` takes the oldest event
ReaderGet ==
    /\ Mailbox # <<>>
    /\ user_connections' = [user_connections EXCEPT ![1][1] = Tail(@)]
    /\ UNCHANGED <<written, mw>>
    /\ MailboxFrame

NextMailboxRace ==
    \/ \E w \in MailboxWriters : WriterTest(w)
    \/ \E w \in MailboxWriters : WriterGet(w)
    \/ \E w \in MailboxWriters : WriterPut(w)
    \/ ReaderGet

SpecMailboxRace == InitMailbox /\ [][NextMailboxRace]_vars

(***************************************************************************)
(* The cleanup thread statement by statement (_start_cleanup_scheduler):   *)
(*   while not self.is_shutting_down:                                      *)
(*       try: self.clean_up_events(); time.sleep(interval_minutes * 60)    *)
(*       except Exception as exc: self.mylogger.error(...)                 *)
(* cleanup_pc is "loop" at the test of the while, "sleep" in time.sleep.   *)
(* clean_up_events raises when the session or the statement fails.         *)
(***************************************************************************)
InitCleanup ==
    /\ InitManager
    /\ sd_pc = [c \in {1} |-> "idle"]
    /\ max_events = MaxCleanupEvents
    /\ max_streams = 0
    /\ native_enum = TRUE
    /\ reg = <<>>
    /\ cm = <<>>
    /\ fan = <<>>
    /\ hd = <<>>
    /\ create_error = {}
    /\ cleanup_log = <<>>

\* what the steps of the cleanup thread leave alone
CleanupFrame ==
    UNCHANGED <<now, next_id, events, event_queue, lock, is_shutting_down,
                connVars, distVars, sd_pc, histVars, max_streams, native_enum,
                reg, cm, fan, hd, create_error, admitted, removed, written, mw>>

\* the test of the while, then the call of clean_up_events, which purges
\* and returns (ok) or raises: the handler logs the exception and the
\* thread is back at the test without having slept
CleanupLoop(ok) ==
    /\ cleanup_pc = "loop"
    /\ IF is_shutting_down
       THEN /\ cleanup_pc' = "dead"
            /\ UNCHANGED <<store, cleanup_log>>
       ELSE /\ Len(cleanup_log) < MaxCleanupLog
            /\ cleanup_log' = Append(cleanup_log, "purge")
            /\ IF ok
               THEN /\ CleanUpEvents
                    /\ cleanup_pc' = "sleep"
               ELSE /\ UNCHANGED store
                    /\ cleanup_pc' = "loop"
    /\ CleanupFrame

\* time.sleep(interval_minutes * 60) returns
CleanupWake ==
    /\ cleanup_pc = "sleep"
    /\ cleanup_log # <<>>
    /\ cleanup_log' = Append(cleanup_log, "sleep")
    /\ cleanup_pc' = "loop"
    /\ UNCHANGED store
    /\ CleanupFrame

\* t.start(): the thread (which InitManager has at "sleep") enters the while
CleanupBegin ==
    /\ cleanup_pc = "sleep"
    /\ cleanup_log = <<>>
    /\ cleanup_log' = <<"start">>
    /\ cleanup_pc' = "loop"
    /\ UNCHANGED store
    /\ CleanupFrame

NextCleanup ==
    \/ Tick
    \/ \E u \in Users, et \in RegisteredTypes, p \in Priorities, x \in ExpireChoices :
          CreateEvent(u, et, p, x)
    \/ \E o \in Objs : CreateCheckOnline(o)
    \/ \E o \in Objs : SetEventRead(o)
    \/ CleanupBegin
    \/ \E ok \in BOOLEAN : CleanupLoop(ok)
    \/ CleanupWake
    \/ \E c \in DOMAIN sd_pc : ShutdownEnter(c)
    \/ \E c \in DOMAIN sd_pc : ShutdownSetFlag(c)

SpecCleanup == InitCleanup /\ [][NextCleanup]_vars

(***************************************************************************)
(* The connect race: register_user_stream in its two calls, add_connection *)
(* and then _recover_user_events, against create_event in its three steps  *)
(* (store, online test, put) and the distributor.  The user may hold an    *)
(* older stream when the race starts.                                      *)
(***************************************************************************)
\* the calls of register_user_stream in the runs of the race
Registrations == {1}

InitRace ==
    /\ now = 0
    /\ store = <<>>
    /\ next_id = 1
    /\ events = <<>>
    /\ event_queue = <<>>
    /\ lock = None
    /\ is_shutting_down = FALSE
    /\ \E older \in SUBSET ConnUsers :
          /\ user_connections = [u \in older |-> (u :> <<>>)]
          /\ users_connect_time = [s \in older |-> s]
          /\ eventtype_connection_users = [t \in EventTypes |-> older]
    /\ next_sid = Cardinality(ConnUsers) + 1
    /\ dist_pc = "inner"
    /\ dist_event = None
    /\ sd_pc = [c \in {1} |-> "idle"]
    /\ sd_queue = {}
    /\ delivered = {}
    /\ max_events = MaxRaceEvents
    /\ max_streams = Cardinality(ConnUsers) + Cardinality(Registrations)
    /\ native_enum = TRUE
    /\ cm = <<>>
    /\ cleanup_log = <<>>
    /\ fan = <<>>
    /\ hd = <<>>
    /\ create_error = {}
    /\ cleanup_pc = "sleep"
    /\ admitted = <<>>
    /\ removed = {}
    /\ written = <<>>
    /\ mw = <<>>
    /\ reg = [r \in Registrations |-> [pc |-> "idle", u |-> None, et |-> "", sid |-> None]]

\* what the steps of register_user_stream leave alone
RaceFrame ==
    UNCHANGED <<now, next_id, events, event_queue, lock, is_shutting_down, distVars,
                sd_pc, histVars, max_streams, native_enum, cm, cleanup_log, fan, hd,
                create_error, cleanup_pc, admitted, removed, written, mw>>

\* lines 431-432: the mailbox is made and add_connection returns its id
RaceAddConnection(r, u, et) ==
    /\ reg[r].pc = "idle"
    /\ next_sid <= max_streams
    /\ LET st1 == AddConnection(u, et, next_sid)
       IN  /\ user_connections' = st1.uc
           /\ users_connect_time' = st1.ct
           /\ eventtype_connection_users' = st1.eu
    /\ next_sid' = next_sid + 1
    /\ reg' = [reg EXCEPT ![r] = [pc |-> "added", u |-> u, et |-> et, sid |-> next_sid]]
    /\ UNCHANGED store
    /\ RaceFrame

\* lines 433-435: _recover_user_events, then the stream id is returned
RaceRecover(r) ==
    /\ reg[r].pc = "added"
    /\ user_connections' = RecoveredConnections(user_connections, reg[r].u, reg[r].et)
    /\ store' = RecoveredStore(reg[r].u, reg[r].et)
    /\ reg' = [reg EXCEPT ![r].pc = "returned"]
    /\ UNCHANGED <<users_connect_time, eventtype_connection_users, next_sid>>
    /\ RaceFrame

NextRace ==
    \/ \E u \in ConnUsers, et \in RegisteredTypes, p \in Priorities : CreateEvent(u, et, p, None)
    \/ \E o \in Objs : CreateCheckOnline(o)
    \/ \E o \in Objs : CreatePut(o)
    \/ \E r \in Registrations, u \in ConnUsers, et \in EventTypes : RaceAddConnection(r, u, et)
    \/ \E r \in Registrations : RaceRecover(r)
    \/ DistGet
    \/ DistHandle

SpecRace == InitRace /\ [][NextRace]_vars

(***************************************************************************)
(* Two users: creation, distribution and recovery side by side.            *)
(***************************************************************************)
InitIsolation ==
    /\ InitManager
    /\ sd_pc = [c \in {1} |-> "idle"]
    /\ max_events = MaxIsolationEvents
    /\ max_streams = MaxIsolationStreams
    /\ native_enum = TRUE
    /\ reg = <<>>
    /\ cm = <<>>
    /\ cleanup_log = <<>>
    /\ fan = <<>>
    /\ hd = <<>>
    /\ create_error = {}

NextIsolation ==
    \/ \E u \in ConnUsers, et \in RegisteredTypes, p \in Priorities : CreateEvent(u, et, p, None)
    \/ \E o \in Objs : CreateCheckOnline(o)
    \/ \E o \in Objs : CreatePut(o)
    \/ \E u \in ConnUsers, et \in EventTypes : RegisterUserStream(u, et)
    \/ \E u \in ConnUsers, sid \in 1..MaxIsolationStreams, et \in EventTypes :
          UnregisterUserStream(u, sid, et)
    \/ DistGet
    \/ DistHandle

SpecIsolation == InitIsolation /\ [][NextIsolation]_vars

(***************************************************************************)
(* ConnectionManager._lock.  The methods of the ConnectionManager run      *)
(* `with self._lock`; add_connection is taken statement by statement.  The *)
(* EventManager and the HTTP handler read user_connections directly.       *)
(* cm.acc is history: the latest access to the three maps, with the        *)
(* accessing thread holding the lock or not, and what the access found.    *)
(***************************************************************************)
\* the threads that call into the ConnectionManager
LockThreads == {1, 2}

InitLock ==
    /\ InitManager
    /\ sd_pc = [c \in {1} |-> "idle"]
    /\ max_events = 0
    /\ max_streams = MaxLockStreams
    /\ native_enum = TRUE
    /\ reg = <<>>
    /\ cleanup_log = <<>>
    /\ fan = <<>>
    /\ hd = <<>>
    /\ create_error = {}
    /\ cm = [lock |-> None, pc |-> [t \in LockThreads |-> "idle"],
             u |-> [t \in LockThreads |-> None], acc |-> {}]

\* what the steps at the lock leave alone
LockFrame ==
    UNCHANGED <<now, storeVars, events, event_queue, lock, is_shutting_down,
                distVars, sd_pc, histVars, max_streams, native_enum, reg, cleanup_log,
                fan, hd, create_error, cleanup_pc, admitted, removed, written, mw>>

\* the record of an access by thread t in operation op for user u, with what
\* it finds: u is a key of user_connections, the number of u's mailboxes
Access(t, op, u) ==
    [op |-> op, locked |-> cm.lock = t, holder |-> cm.lock,
     online |-> IsOnline(u), mailboxes |-> Cardinality(StreamsOf(u))]

\* add_connection, line 84: `with self._lock`
LockAddEnter(t) ==
    /\ cm.pc[t] = "idle" /\ cm.lock = None
    /\ next_sid <= max_streams
    /\ cm' = [cm EXCEPT !.lock = t, !.pc[t] = "add"]
    /\ UNCHANGED connVars
    /\ LockFrame

\* line 85: `user_conns = self.user_connections[user_id]`; the defaultdict
\* inserts an empty dict for a user that is no key
LockAddKey(t, u) ==
    /\ cm.pc[t] = "add"
    /\ user_connections' = IF u \in DOMAIN user_connections THEN user_connections
                           ELSE user_connections @@ (u :> <<>>)
    /\ cm' = [cm EXCEPT !.pc[t] = "insert", !.u[t] = u, !.acc = {Access(t, "add_connection", u)}]
    /\ UNCHANGED <<users_connect_time, eventtype_connection_users, next_sid>>
    /\ LockFrame

\* lines 86-98: the eviction at the cap, the three insertions, the return
\* (which releases the lock)
LockAddInsert(t, et) ==
    /\ cm.pc[t] = "insert"
    /\ LET st1 == AddConnection(cm.u[t], et, next_sid)
       IN  /\ user_connections' = st1.uc
           /\ users_connect_time' = st1.ct
           /\ eventtype_connection_users' = st1.eu
    /\ next_sid' = next_sid + 1
    /\ cm' = [cm EXCEPT !.lock = None, !.pc[t] = "idle", !.u[t] = None]
    /\ LockFrame

\* remove_connection(u, sid, et): the whole `with self._lock` block
LockRemove(t, u, sid, et) ==
    /\ cm.pc[t] = "idle" /\ cm.lock = None
    /\ sid \in StreamsOf(u)
    /\ RemoveConnection(u, sid, et)
    /\ cm' = [cm EXCEPT !.acc = {[Access(t, "remove_connection", u) EXCEPT
                                            !.locked = TRUE, !.holder = t]}]
    /\ UNCHANGED next_sid
    /\ LockFrame

\* the reads outside the ConnectionManager, none under `with self._lock`:
\* the online tests of create_event (line 232) and send_raw_event (line
\* 266), the enumeration of shutdown (lines 470-472) and the lookup of the
\* handler (service.py lines 295-299)
LockFreeRead(t, op, u) ==
    /\ cm.pc[t] = "idle"
    /\ cm' = [cm EXCEPT !.acc = {Access(t, op, u)}]
    /\ UNCHANGED connVars
    /\ LockFrame

\* the operations that read user_connections from outside
OutsideReaders == {"create_event", "send_raw_event", "shutdown", "event_stream"}

NextLock ==
    \/ \E t \in LockThreads : LockAddEnter(t)
    \/ \E t \in LockThreads, u \in Users : LockAddKey(t, u)
    \/ \E t \in LockThreads, et \in EventTypes : LockAddInsert(t, et)
    \/ \E t \in LockThreads, u \in Users, sid \in 1..MaxLockStreams, et \in EventTypes :
          LockRemove(t, u, sid, et)
    \/ \E t \in LockThreads, op \in OutsideReaders, u \in Users : LockFreeRead(t, op, u)

SpecLock == InitLock /\ [][NextLock]_vars

(***************************************************************************)
(* _distribute_event step by step, with the readers of the mailboxes: the  *)
(* distributor walks the snapshot get_user_streams() of a user with two    *)
(* open streams while the two handlers take events from their mailboxes.   *)
(***************************************************************************)
\* the streams of user 1 in the runs of the fan-out
FanStreams == {1, 2}

InitFanOut ==
    /\ now = 0
    /\ store = <<>>
    /\ next_id = 1
    /\ events = <<>>
    /\ event_queue = <<>>
    /\ lock = None
    /\ is_shutting_down = FALSE
    /\ user_connections = (1 :> [s \in FanStreams |-> <<>>])
    /\ users_connect_time = [s \in FanStreams |-> s]
    /\ eventtype_connection_users = [t \in EventTypes |-> {1}]
    /\ next_sid = 3
    /\ dist_pc = "inner"
    /\ dist_event = None
    /\ sd_pc = [c \in {1} |-> "idle"]
    /\ sd_queue = {}
    /\ delivered = {}
    /\ max_events = 0
    /\ max_streams = 2
    /\ native_enum = TRUE
    /\ reg = <<>>
    /\ cm = <<>>
    /\ cleanup_log = <<>>
    /\ hd = <<>>
    /\ create_error = {}
    /\ cleanup_pc = "sleep"
    /\ admitted = <<>>
    /\ removed = {}
    /\ written = <<>>
    /\ mw = <<>>
    /\ fan = [pc |-> "idle", n |-> 0, snap |-> <<>>, i |-> 0]

\* what the steps of the fan-out leave alone
FanFrame ==
    UNCHANGED <<now, storeVars, events, event_queue, lock, is_shutting_down,
                users_connect_time, eventtype_connection_users, next_sid,
                distVars, sd_pc, histVars, max_streams, native_enum, reg, cm, cleanup_log, hd,
                create_error, cleanup_pc, admitted, removed, written, mw>>

\* the stream the pass is at
FanStream == fan.snap[fan.i]

\* the list get_user_streams(1) returns: the mailboxes in the order the
\* streams were opened
SnapshotOf(S) == [k \in 1..Cardinality(S) |-> CHOOSE s \in S : Cardinality({t \in S : t < s}) = k - 1]

\* the distributor calls _distribute_event for its next event: line 359, the
\* snapshot, and the first turn of the loop
FanStart ==
    /\ fan.pc \in {"idle", "done", "aborted"}
    /\ fan.n < MaxFanEvents
    /\ fan' = [pc |-> "test", n |-> fan.n + 1, snap |-> SnapshotOf(StreamsOf(1)), i |-> 1]
    /\ UNCHANGED user_connections
    /\ FanFrame

\* line 362: `if stream.qsize() < self.max_events_per_stream`
FanTest ==
    /\ fan.pc = "test"
    /\ fan' = [fan EXCEPT !.pc = IF Len(user_connections[1][FanStream]) < MaxEventsPerStream
                                 THEN "put" ELSE "get"]
    /\ UNCHANGED user_connections
    /\ FanFrame

\* line 365: `stream.get_nowait()`.  On an empty mailbox it raises
\* queue.Empty, which `except queue.Full` does not catch: the exception
\* leaves the loop and _distribute_event, and the distributor's
\* `except queue.Empty: continue` takes it
FanGet ==
    /\ fan.pc = "get"
    /\ IF user_connections[1][FanStream] = <<>>
       THEN /\ fan' = [fan EXCEPT !.pc = "aborted"]
            /\ UNCHANGED user_connections
       ELSE /\ fan' = [fan EXCEPT !.pc = "put"]
            /\ user_connections' = [user_connections EXCEPT ![1][FanStream] = Tail(@)]
    /\ FanFrame

\* lines 363, 366: `stream.put_nowait(event)`, queue.Full passed over; then
\* the next stream of the snapshot, or the return
FanPut ==
    /\ fan.pc = "put"
    /\ user_connections' = [user_connections EXCEPT ![1][FanStream] =
                               IF Len(@) < MaxEventsPerStream THEN Append(@, fan.n) ELSE @]
    /\ fan' = IF fan.i < Len(fan.snap)
              THEN [fan EXCEPT !.pc = "test", !.i = fan.i + 1]
              ELSE [fan EXCEPT !.pc = "done"]
    /\ FanFrame

\* the handler of stream s: `user_stream.get(timeout=10)` takes the oldest
FanReaderGet(s) ==
    /\ user_connections[1][s] # <<>>
    /\ user_connections' = [user_connections EXCEPT ![1][s] = Tail(@)]
    /\ UNCHANGED fan
    /\ FanFrame

NextFanOut ==
    \/ FanStart
    \/ FanTest
    \/ FanGet
    \/ FanPut
    \/ \E s \in FanStreams : FanReaderGet(s)

SpecFanOut == InitFanOut /\ [][NextFanOut]_vars

(***************************************************************************)
(* The HTTP handler stream_events (service.py): the view registers the     *)
(* stream and returns a Response over the generator event_stream(), whose  *)
(* `finally` unregisters it.  The server then iterates the generator, or   *)
(* closes the response without iterating it (a HEAD request: the route     *)
(* accepts HEAD with GET, and the body of a HEAD response is not           *)
(* iterated); closing a generator that was never started runs none of its  *)
(* body.  _on_stop sets self.sse_mgr = None after shutdown() returned.     *)
(***************************************************************************)
\* the requests served in the runs of the handler
Handlers == {1, 2}

\* `self.sse_mgr = None` of _on_stop, which follows the return of shutdown()
SseMgrIsNone == \E c \in DOMAIN sd_pc : sd_pc[c] = "done"

InitHandler ==
    /\ InitManager
    /\ sd_pc = [c \in {1} |-> "idle"]
    /\ max_events = MaxHandlerEvents
    /\ max_streams = MaxHandlerStreams
    /\ native_enum = TRUE
    /\ reg = <<>>
    /\ cm = <<>>
    /\ cleanup_log = <<>>
    /\ fan = <<>>
    /\ create_error = {}
    /\ hd = [h \in Handlers |-> [pc |-> "idle", u |-> None, et |-> "", sid |-> None, unreg |-> 0]]

\* everything but the connection tables, the table of events and hd
HandlerFrame ==
    UNCHANGED <<now, next_id, events, event_queue, lock, is_shutting_down, distVars,
                sd_pc, histVars, max_streams, native_enum, reg, cm, cleanup_log, fan, create_error, cleanup_pc,
                admitted, removed, written, mw>>

\* lines 288-291: register_user_stream returns the stream id (the 429 branch
\* is not taken: add_connection always returns an id)
HandlerRegister(h, u, et) ==
    /\ hd[h].pc = "idle"
    /\ ~SseMgrIsNone
    /\ next_sid <= max_streams
    /\ LET st1 == AddConnection(u, et, next_sid)
       IN  /\ user_connections' = RecoveredConnections(st1.uc, u, et)
           /\ users_connect_time' = st1.ct
           /\ eventtype_connection_users' = st1.eu
    /\ next_sid' = next_sid + 1
    /\ store' = RecoveredStore(u, et)
    /\ hd' = [hd EXCEPT ![h] = [pc |-> "registered", u |-> u, et |-> et,
                                sid |-> next_sid, unreg |-> 0]]
    /\ HandlerFrame

\* the `finally` of event_stream(): self.sse_mgr.unregister_user_stream(...),
\* an AttributeError when sse_mgr is None; the connection has ended
HandlerFinally(h) ==
    IF SseMgrIsNone
    THEN /\ hd' = [hd EXCEPT ![h].pc = "ended"]
         /\ UNCHANGED connVars
    ELSE /\ RemoveConnection(hd[h].u, hd[h].sid, hd[h].et)
         /\ hd' = [hd EXCEPT ![h].pc = "ended", ![h].unreg = @ + 1]
         /\ UNCHANGED next_sid

\* the server starts to iterate: the generator looks its mailbox up and
\* enters the loop, or returns (through `finally`) when the stream is gone
HandlerStart(h) ==
    /\ hd[h].pc = "registered"
    /\ IF ~SseMgrIsNone /\ hd[h].sid \in StreamsOf(hd[h].u)
       THEN /\ hd' = [hd EXCEPT ![h].pc = "streaming"]
            /\ UNCHANGED connVars
       ELSE HandlerFinally(h)
    /\ UNCHANGED store
    /\ HandlerFrame

\* the response is closed without a first next(): nothing of event_stream()
\* runs, `finally` included
HandlerAbandon(h) ==
    /\ hd[h].pc = "registered"
    /\ hd' = [hd EXCEPT ![h].pc = "ended"]
    /\ UNCHANGED <<store, connVars>>
    /\ HandlerFrame

\* one turn of the loop with an event: user_stream.get, yield the frame
HandlerYield(h) ==
    /\ hd[h].pc = "streaming"
    /\ hd[h].sid \in StreamsOf(hd[h].u)
    /\ user_connections[hd[h].u][hd[h].sid] # <<>>
    /\ user_connections' = [user_connections EXCEPT ![hd[h].u][hd[h].sid] = Tail(@)]
    /\ UNCHANGED <<store, hd, users_connect_time, eventtype_connection_users, next_sid>>
    /\ HandlerFrame

\* the client is gone or the server closes the response: GeneratorExit at
\* the yield, then `finally`
HandlerClose(h) ==
    /\ hd[h].pc = "streaming"
    /\ HandlerFinally(h)
    /\ UNCHANGED store
    /\ HandlerFrame

\* an exception in the loop (to_dict or json.dumps of an event): logged by
\* `except Exception`, then `finally`
HandlerError(h) ==
    /\ hd[h].pc = "streaming"
    /\ hd[h].sid \in StreamsOf(hd[h].u)
    /\ user_connections[hd[h].u][hd[h].sid] # <<>>
    /\ HandlerFinally(h)
    /\ UNCHANGED store
    /\ HandlerFrame

NextHandler ==
    \/ \E u \in Users, et \in RegisteredTypes, p \in Priorities : CreateEvent(u, et, p, None)
    \/ \E h \in Handlers, u \in Users, et \in EventTypes : HandlerRegister(h, u, et)
    \/ \E h \in Handlers : HandlerStart(h)
    \/ \E h \in Handlers : HandlerAbandon(h)
    \/ \E h \in Handlers : HandlerYield(h)
    \/ \E h \in Handlers : HandlerClose(h)
    \/ \E h \in Handlers : HandlerError(h)
    \/ \E c \in DOMAIN sd_pc : ShutdownEnter(c)
    \/ \E c \in DOMAIN sd_pc : ShutdownSetFlag(c)
    \/ \E c \in DOMAIN sd_pc : ShutdownFinish(c)

SpecHandler == InitHandler /\ [][NextHandler]_vars

(***************************************************************************)
(* The event table under recovery on reconnect and the mark-read           *)
(* operations of service.py, for the users of ConnUsers.  Rows are made by *)
(* create_event up to _store_event; the delivery of the events it          *)
(* returns, the distributor and shutdown() are the subject of Spec.        *)
(***************************************************************************)
\* EventPriority.LOW and EventPriority.HIGH
RecoveryPriorities == {0, 2}

InitRecovery ==
    /\ now = 0
    /\ store = <<>>
    /\ next_id = 1
    /\ events = <<>>
    /\ event_queue = <<>>
    /\ lock = None
    /\ is_shutting_down = FALSE
    /\ user_connections = <<>>
    /\ users_connect_time = <<>>
    /\ eventtype_connection_users = [t \in StreamEventTypes |-> {}]
    /\ next_sid = 1
    /\ dist_pc = "inner"
    /\ dist_event = None
    /\ sd_pc = [c \in {1} |-> "idle"]
    /\ sd_queue = {}
    /\ delivered = {}
    /\ max_events = MaxRecoveryEvents
    /\ max_streams = MaxRecoveryStreams
    /\ native_enum \in BOOLEAN
    /\ reg = <<>>
    /\ cm = <<>>
    /\ cleanup_log = <<>>
    /\ fan = <<>>
    /\ hd = <<>>
    /\ create_error = {}
    /\ cleanup_pc = "sleep"
    /\ admitted = <<>>
    /\ removed = {}
    /\ written = <<>>
    /\ mw = <<>>

\* order_by(EventEntity.created_at.asc()); rows equal in it in id order
RowOlder(i, j) ==
    \/ store[i].created_at < store[j].created_at
    \/ store[i].created_at = store[j].created_at /\ i < j

RECURSIVE SortOldest(_)
\* the rows of the set S, oldest first
SortOldest(S) ==
    IF S = {} THEN <<>>
    ELSE LET first == CHOOSE i \in S : \A j \in S \ {i} : RowOlder(i, j)
         IN  <<first>> \o SortOldest(S \ {first})

\* SSEService.fetch_unread(user_id): the unread rows of the user, oldest
\* first, without the expired ones and those of an unregistered class
FetchUnread(u) ==
    SortOldest({i \in DOMAIN store : /\ store[i].target_userid = u
                                     /\ ~store[i].is_read
                                     /\ ~IsExpired(store[i].expired_at, now)
                                     /\ store[i].event_type \in RegisteredTypes})

\* dismiss_items without the target_userid filter: every row of item_ids
DismissItemsAnyTarget(u, ids) ==
    /\ store' = [i \in DOMAIN store |->
                    IF i \in ids THEN [store[i] EXCEPT !.is_read = TRUE] ELSE store[i]]
    /\ UNCHANGED <<now, next_id, events, event_queue, lock, is_shutting_down,
                   connVars, distVars, sd_pc, histVars, auxVars>>

\* SSEService.dismiss_items(user_id, item_ids): the rows with id in item_ids
\* and target_userid == user_id get is_read = True
DismissItems(u, ids) ==
    /\ store' = [i \in DOMAIN store |->
                    IF i \in ids /\ store[i].target_userid = u
                    THEN [store[i] EXCEPT !.is_read = TRUE] ELSE store[i]]
    /\ UNCHANGED <<now, next_id, events, event_queue, lock, is_shutting_down,
                   connVars, distVars, sd_pc, histVars, auxVars>>

\* SSEService.dismiss_all(user_id): the unread rows of the user get is_read = True
DismissAll(u) ==
    /\ store' = [i \in DOMAIN store |->
                    IF store[i].target_userid = u /\ ~store[i].is_read
                    THEN [store[i] EXCEPT !.is_read = TRUE] ELSE store[i]]
    /\ UNCHANGED <<now, next_id, events, event_queue, lock, is_shutting_down,
                   connVars, distVars, sd_pc, histVars, auxVars>>

NextRecovery ==
    \/ Tick
    \/ \E u \in ConnUsers, et \in RegisteredTypes, p \in RecoveryPriorities, x \in ExpireChoices :
           CreateEvent(u, et, p, x)
    \/ \E u \in ConnUsers, et \in StreamEventTypes : RegisterUserStream(u, et)
    \/ \E u \in ConnUsers, ids \in SUBSET (DOMAIN store) : DismissItems(u, ids)
    \/ \E u \in ConnUsers : DismissAll(u)

SpecRecovery == InitRecovery /\ [][NextRecovery]_vars

(***************************************************************************)
(* Recovery over a table that holds rows of an earlier run of the process: *)
(* rows of a type whose class this process has not registered              *)
(* (EventManager._event_classes is filled by the plugins that are loaded). *)
(***************************************************************************)
\* a row an earlier process left: unread, not yet expired, made of no object
\* of this process
OldRow(i, u, et, x) ==
    [event_type |-> et, target_userid |-> u, priority |-> 1, is_read |-> FALSE,
     created_at |-> i, expired_at |-> x, obj |-> None]

\* the table after EventEntity.__table__.create(checkfirst=True) and the
\* startup purge: up to MaxOldRows rows of the registered and the unknown type
InitOldRows ==
    /\ \E n \in 0..MaxOldRows :
          \E us \in [1..n -> ConnUsers], ts \in [1..n -> StreamEventTypes],
             xs \in [1..n -> ExpireChoices] :
             store = [i \in 1..n |-> OldRow(i, us[i], ts[i], xs[i])]
    /\ next_id = Len(store) + 1
    /\ now = 0
    /\ events = <<>>
    /\ event_queue = <<>>
    /\ lock = None
    /\ is_shutting_down = FALSE
    /\ user_connections = <<>>
    /\ users_connect_time = <<>>
    /\ eventtype_connection_users = [t \in StreamEventTypes |-> {}]
    /\ next_sid = 1
    /\ dist_pc = "inner"
    /\ dist_event = None
    /\ sd_pc = [c \in {1} |-> "idle"]
    /\ sd_queue = {}
    /\ delivered = {}
    /\ max_events = 0
    /\ max_streams = MaxOldRowStreams
    /\ native_enum = TRUE
    /\ reg = <<>>
    /\ cm = <<>>
    /\ cleanup_log = <<>>
    /\ fan = <<>>
    /\ hd = <<>>
    /\ create_error = {}
    /\ cleanup_pc = "sleep"
    /\ admitted = <<>>
    /\ removed = {}
    /\ written = <<>>
    /\ mw = <<>>

\* the clock advances (while a row can still expire)
TickRows ==
    /\ now < MaxTime
    /\ \E i \in DOMAIN store : store[i].expired_at # None /\ now <= store[i].expired_at
    /\ now' = now + 1
    /\ UNCHANGED <<storeVars, events, event_queue, lock, is_shutting_down,
                   connVars, distVars, sd_pc, histVars, auxVars>>

NextOldRows ==
    \/ TickRows
    \/ \E u \in ConnUsers, et \in StreamEventTypes : RegisterUserStream(u, et)
    \/ \E u \in ConnUsers : DismissAll(u)

SpecOldRows == InitOldRows /\ [][NextOldRows]_vars

(***************************************************************************)
(* Recovery of more rows than a mailbox holds: the table holds up to       *)
(* MaxOverflowRows unread rows without expiry when the users connect.      *)
(***************************************************************************)
InitOverflow ==
    /\ \E n \in 0..MaxOverflowRows :
          \E us \in [1..n -> ConnUsers], ps \in [1..n -> RecoveryPriorities] :
             store = [i \in 1..n |->
                         [OldRow(i, us[i], "SystemNotification", None) EXCEPT !.priority = ps[i]]]
    /\ next_id = Len(store) + 1
    /\ now = 0
    /\ events = <<>>
    /\ event_queue = <<>>
    /\ lock = None
    /\ is_shutting_down = FALSE
    /\ user_connections = <<>>
    /\ users_connect_time = <<>>
    /\ eventtype_connection_users = [t \in StreamEventTypes |-> {}]
    /\ next_sid = 1
    /\ dist_pc = "inner"
    /\ dist_event = None
    /\ sd_pc = [c \in {1} |-> "idle"]
    /\ sd_queue = {}
    /\ delivered = {}
    /\ max_events = 0
    /\ max_streams = MaxOverflowStreams
    /\ native_enum \in BOOLEAN
    /\ reg = <<>>
    /\ cm = <<>>
    /\ cleanup_log = <<>>
    /\ fan = <<>>
    /\ hd = <<>>
    /\ create_error = {}
    /\ cleanup_pc = "sleep"
    /\ admitted = <<>>
    /\ removed = {}
    /\ written = <<>>
    /\ mw = <<>>

NextOverflow ==
    \/ \E u \in ConnUsers, et \in StreamEventTypes : RegisterUserStream(u, et)
    \/ \E u \in ConnUsers, ids \in SUBSET (DOMAIN store) : DismissItems(u, ids)

SpecOverflow == InitOverflow /\ [][NextOverflow]_vars


(***************************************************************************)
(* Properties.                                                             *)
(***************************************************************************)
\* the rows made of event object o
RowsOf(o) == {i \in DOMAIN store : store[i].obj = o}

\* the expiry time of event object o is still ahead of the clock
ExpiryAhead(o) == events[o].expired_at = None \/ events[o].expired_at > now

\* shutdown() is running in some thread: the flag is being set or the queue drained
ShutdownRunning == \E c \in DOMAIN sd_pc : sd_pc[c] \in {"set", "drain"}

\* the streams of o's target user that were open before o was made and are
\* still open: the user has been connected since
StreamsSince(o) == {s \in StreamsOf(events[o].target_userid) : s < events[o].nsid}

C2_NeverBlocks == \A o \in Objs : events[o].cr # "blocked"

\* C3, as the states the claim excludes: take an unread, unexpired event that
\* create_event returned, whose user has been connected since before it was
\* made, while no shutdown is running (a running shutdown disconnects the
\* user).  (a) It does not wait in the central queue with the distributor
\* thread ended, and (b) once it has left the queue and the distributor's
\* hands, it was put into every mailbox the user has kept
C3_ReturnedEventDelivered ==
    \A o \in Objs :
        (/\ events[o].kind = "event" /\ events[o].cr = "ret"
         /\ IsDeliverable(o)
         /\ StreamsSince(o) # {}
         /\ ~ShutdownRunning)
        => /\ (\E i \in DOMAIN event_queue : event_queue[i] = o) => dist_pc # "dead"
           /\ ((\A i \in DOMAIN event_queue : event_queue[i] # o) /\ dist_event # o)
              => \A s \in StreamsSince(o) : <<o, s>> \in delivered

\* C4, as the states the claim excludes: once a raw event that send_raw_event
\* enqueued has left the central queue and the distributor's hands, with no
\* shutdown started, it was put into every mailbox its user has kept
C4_RawEventDelivered ==
    \A o \in Objs :
        (/\ events[o].kind = "raw"
         /\ \A i \in DOMAIN event_queue : event_queue[i] # o
         /\ dist_event # o
         /\ ~is_shutting_down /\ ~ShutdownRunning)
        => \A s \in StreamsSince(o) : <<o, s>> \in delivered

\* C5: a raw event never gets a store row.  No step leaves a row made of a
\* raw event in the table, and no step enqueues a raw event for a user who is
\* offline, or while the central queue is full (send_raw_event returns False)
C5_RawNeverStored ==
    [][/\ \A i \in DOMAIN store' : events'[store'[i].obj].kind # "raw"
       /\ \A o \in DOMAIN events' \ DOMAIN events :
             events'[o].kind = "raw"
             => /\ IsOnline(events'[o].target_userid)
                /\ Len(event_queue) < MaxEventQueueSize
                /\ event_queue' = Append(event_queue, o)
       /\ (\A u \in Users : ~IsOnline(u) \/ Len(event_queue) >= MaxEventQueueSize)
             => \A o \in DOMAIN events' \ DOMAIN events : events'[o].kind # "raw"]_vars

\* C5, its case: the shutdown drain took a raw event off the central queue
\* while the table holds rows, none of them made of the raw event
C5_Witness ==
    \E o \in Objs, c \in DOMAIN sd_pc :
        /\ events[o].kind = "raw"
        /\ sd_pc[c] = "raised"
        /\ store # <<>>
        /\ RowsOf(o) = {}

\* C6: once shutdown has started, create_event, send_raw_event and
\* register_user_stream fail: no event object is made (so none is stored or
\* enqueued) and no stream is registered
C6_NotRunningRejects ==
    [][is_shutting_down => (Len(events') = Len(events) /\ next_sid' = next_sid)]_vars

\* C7 (as amended): every event that was deliverable in the central queue
\* when shutdown started, and that is still unread with its expiry time ahead
\* when shutdown has completed, has a store row with is_read = false
C7_ShutdownKeepsPending ==
    (\E c \in DOMAIN sd_pc : sd_pc[c] = "done")
    => \A o \in sd_queue :
          (~events[o].is_read /\ ExpiryAhead(o))
          => \E i \in RowsOf(o) : ~store[i].is_read

\* C7, its case: shutdown has completed and an event that was queued when it
\* started is still unread and unexpired, whether the drain or the
\* distributor took it
C7_Witness ==
    /\ \E c \in DOMAIN sd_pc : sd_pc[c] = "done"
    /\ \E o \in sd_queue : ~events[o].is_read /\ ExpiryAhead(o)
                           /\ \E i \in RowsOf(o) : ~store[i].is_read

\* C7 (as stated): every event that was deliverable in the central queue
\* when shutdown started has a store row with is_read = false when shutdown
\* has completed
C7_Original ==
    (\E c \in DOMAIN sd_pc : sd_pc[c] = "done")
    => \A o \in sd_queue : \E i \in RowsOf(o) : ~store[i].is_read

\* C8: shutdown never writes a second row: when shutdown has completed, every
\* event create_event made has at most one row (exactly one unless the purge
\* took it), and its id is the one assigned at creation
C8_NoSecondRow ==
    (\E c \in DOMAIN sd_pc : sd_pc[c] = "done")
    => \A o \in Objs :
          events[o].kind = "event"
          => /\ Cardinality(RowsOf(o)) <= 1
             /\ events[o].id = events[o].id0

\* C9: of two concurrent calls of shutdown at most one gets past the test of
\* the flag and executes the drain / disconnect / join / purge sequence
C9_OneShutdownRuns ==
    Cardinality({c \in DOMAIN sd_pc : sd_pc[c] \in {"set", "drain", "raised", "done"}}) <= 1

\* C10: no exception escapes shutdown, whatever the central queue holds
C10_NoExceptionEscapes == \A c \in DOMAIN sd_pc : sd_pc[c] # "raised"

\* C11: after shutdown has returned neither worker is alive: the distributor
\* thread and the cleanup thread have both seen the flag and ended
C11_WorkersStopped ==
    (\E c \in DOMAIN sd_pc : sd_pc[c] = "done")
    => (dist_pc = "dead" /\ cleanup_pc = "dead")

\* the stream ids of the last n admissions of user u
LastAdmitted(u, n) ==
    {admitted[u][i].sid : i \in {j \in DOMAIN admitted[u] : j > Len(admitted[u]) - n}}

\* C12: the per-user connection cap.  In every state a user holds at most
\* max_connections_per_user mailboxes, and a user none of whose streams was
\* removed by a caller holds exactly the mailboxes of its latest
\* max_connections_per_user admissions: the evicted are the earliest admitted
C12_ConnectionCap ==
    \A u \in ConnUsers :
        /\ Cardinality(StreamsOf(u)) <= MaxConnectionsPerUser
        /\ u \notin removed => StreamsOf(u) = LastAdmitted(u, MaxConnectionsPerUser)

\* C12, its case: a user was admitted max_connections_per_user + k times,
\* k >= 2, with no removal, and holds max_connections_per_user mailboxes
C12_Witness ==
    \E u \in ConnUsers :
        /\ u \notin removed
        /\ Len(admitted[u]) >= MaxConnectionsPerUser + 2
        /\ Cardinality(StreamsOf(u)) = MaxConnectionsPerUser

\* C15: every user id in a per-event-type online set is a key of
\* user_connections
C15_OnlineSetsAreKeys ==
    \A t \in DOMAIN eventtype_connection_users :
        eventtype_connection_users[t] \subseteq DOMAIN user_connections

\* the last n elements of the sequence q (all of q when it is shorter)
LastOf(q, n) == SubSeq(q, IF Len(q) > n THEN Len(q) - n + 1 ELSE 1, Len(q))

\* C13: the mailbox overflow law.  After any number of writes by the single
\* writer, with no reader, the mailbox holds exactly the last
\* max_events_per_stream events written (all of them when fewer were
\* written), in write order
C13_MailboxOverflowLaw == Mailbox = LastOf(written, MaxEventsPerStream)

\* C13, its case: max_events_per_stream + k events, k >= 2, were written and
\* the mailbox is full
C13_Witness ==
    /\ Len(written) >= MaxEventsPerStream + 2
    /\ Len(Mailbox) = MaxEventsPerStream

\* C14: a write into a mailbox always ends with the new event in the
\* mailbox: no write of the distributor or of a recovery writer ends with its
\* event dropped (queue.Full swallowed) or with an error (queue.Empty raised)
C14_WriteKeepsNewEvent ==
    \A w \in DOMAIN mw : mw[w].pc \notin {"lost", "empty"}

\* the rows that qualify for the recovery of user u and event type t:
\* targeted at u, of type t, unread and not expired
Qualifying(u, t) ==
    {i \in DOMAIN store : /\ store[i].target_userid = u
                          /\ store[i].event_type = t
                          /\ ~store[i].is_read
                          /\ ~IsExpired(store[i].expired_at, now)}

\* row i comes before row j by priority descending (CRITICAL > HIGH > NORMAL
\* > LOW), then created_at ascending
HigherThenOlder(i, j) ==
    \/ store[i].priority > store[j].priority
    \/ store[i].priority = store[j].priority /\ store[i].created_at < store[j].created_at

\* the row ids of the entries of mailbox mb
IdsOf(mb) == {mb[k].id : k \in DOMAIN mb}

\* C16: recovery on reconnect.  When register_user_stream(u, t) returns and
\* at most max_events_per_stream rows qualify, the new mailbox holds exactly
\* the qualifying rows, once each, every one with is_recovered = true, in
\* the order priority descending then created_at ascending
C16_RecoveryOnReconnect ==
    [][\A u \in ConnUsers, t \in StreamEventTypes :
          (RegisterUserStream(u, t) /\ Cardinality(Qualifying(u, t)) <= MaxEventsPerStream)
          => LET mb == user_connections'[u][next_sid]
             IN  /\ Len(mb) = Cardinality(Qualifying(u, t))
                 /\ IdsOf(mb) = Qualifying(u, t)
                 /\ \A k \in DOMAIN mb : mb[k].is_recovered
                 /\ \A k, l \in DOMAIN mb :
                        k < l => ~HigherThenOlder(mb[l].id, mb[k].id)]_vars

\* the unread rows of user u and event type t that have expired
ExpiredPending(u, t) ==
    {i \in DOMAIN store : /\ store[i].target_userid = u
                          /\ store[i].event_type = t
                          /\ ~store[i].is_read
                          /\ IsExpired(store[i].expired_at, now)}

\* the elements of the sequence q
Range(q) == {q[k] : k \in DOMAIN q}

\* C17: recovery idempotence.  A connection of user u for type t delivers to
\* the new mailbox the qualifying rows (the last max_events_per_stream of
\* them in the order of the query), adds no row, changes no row and removes
\* exactly the unread rows of u and t that had expired.  It leaves the
\* qualifying rows as they were and no expired unread row of u and t behind,
\* so the next connection, with nothing created, read or expired in between,
\* delivers the same set and leaves the table unchanged
C17_RecoveryIdempotent ==
    [][\A u \in ConnUsers, t \in StreamEventTypes :
          RegisterUserStream(u, t)
          => /\ IdsOf(user_connections'[u][next_sid])
                   = Range(LastOf(SortRows(Qualifying(u, t)), MaxEventsPerStream))
             /\ Qualifying(u, t)' = Qualifying(u, t)
             /\ DOMAIN store' = DOMAIN store \ ExpiredPending(u, t)
             /\ \A i \in DOMAIN store' : store'[i] = store[i]
             /\ ExpiredPending(u, t)' = {}]_vars

\* C17, its case: a user connected twice for the same type; each connection
\* delivered the same row r (the first mailbox holds it twice, the second
\* once) and an expired row was deleted
C17_Witness ==
    \E u \in ConnUsers, r \in DOMAIN store :
        /\ StreamsOf(u) = {1, 2}
        /\ user_connections[u][1] = <<[obj |-> None, id |-> r, is_recovered |-> TRUE],
                                      [obj |-> None, id |-> r, is_recovered |-> TRUE]>>
        /\ user_connections[u][2] = <<[obj |-> None, id |-> r, is_recovered |-> TRUE]>>
        /\ Cardinality(DOMAIN store) < next_id - 1

\* C17 as stated: every connection leaves the set of store rows unchanged,
\* no row added and none removed
C17_Original ==
    [][\A u \in ConnUsers, t \in StreamEventTypes :
          RegisterUserStream(u, t) => store' = store]_vars

\* C18: an event marked read is not returned again.  For every event
\* object marked read by set_event_read, no row made of it is returned by
\* fetch_unread for its target user or by a recovery of that user and the
\* event's type
C18_ReadNotReturned ==
    \A o \in Objs :
        (events[o].kind = "event" /\ events[o].is_read)
        => \A i \in RowsOf(o) :
               /\ i \notin Range(FetchUnread(events[o].target_userid))
               /\ i \notin Recoverable(events[o].target_userid, events[o].event_type)

\* C19: marking read on behalf of user u touches the rows of u only.  A step
\* of dismiss_items(u, ids), whatever ids it is given, or of dismiss_all(u)
\* adds and removes no row and leaves every row whose target_userid is not u
\* as it was
C19_MarkReadOwnRowsOnly ==
    [][\A u \in ConnUsers :
          (DismissAll(u) \/ \E ids \in SUBSET (DOMAIN store) : DismissItems(u, ids))
          => /\ DOMAIN store' = DOMAIN store
             /\ \A i \in DOMAIN store :
                    store[i].target_userid # u => store'[i] = store[i]]_vars

\* C19, its case: rows of two users exist, one user's row was marked read
\* and the other user's row is unread
C19_Witness ==
    \E i, j \in DOMAIN store :
        /\ store[i].target_userid # store[j].target_userid
        /\ store[i].is_read
        /\ ~store[j].is_read

\* is_read of every row and of every event object is after the step what it
\* was before
ReadMarksUnchanged ==
    /\ \A i \in DOMAIN store \cap DOMAIN store' : store'[i].is_read = store[i].is_read
    /\ \A o \in Objs : events'[o].is_read = events[o].is_read

\* C20: delivery never marks an event read.  A step of the distributor that
\* handles an event (runtime distribution) and a step of
\* register_user_stream (recovery on reconnect) leave is_read of every store
\* row and of every in-memory event unchanged, and every step that changes
\* an is_read is a step of the mark-read operation set_event_read
C20_DeliveryNeverMarksRead ==
    [][/\ (DistHandle \/ \E u \in Users, et \in EventTypes : RegisterUserStream(u, et))
          => ReadMarksUnchanged
       /\ ~ReadMarksUnchanged => \E o \in Objs : SetEventRead(o)]_vars

\* C20, its case: one event was distributed into a mailbox and another was
\* recovered into it, and both are still unread, object and row
C20_Witness ==
    /\ \E o \in Objs, s \in 1..MaxStreams :
           /\ <<o, s>> \in delivered
           /\ ~events[o].is_read
           /\ RowsOf(o) # {}
           /\ \A i \in RowsOf(o) : ~store[i].is_read
    /\ \E u \in DOMAIN user_connections, s \in 1..MaxStreams :
           /\ s \in StreamsOf(u)
           /\ \E k \in DOMAIN user_connections[u][s] :
                  /\ user_connections[u][s][k].is_recovered
                  /\ user_connections[u][s][k].id \in DOMAIN store
                  /\ ~store[user_connections[u][s][k].id].is_read

\* C21: create_event with an event type that is not registered fails with
\* an error (ValueError) and leaves the store, the central queue, every
\* mailbox and the event objects unchanged
C21_UnregisteredTypeRejected ==
    [][\A u \in Users, et \in StreamEventTypes, p \in Priorities, x \in ExpireChoices :
          CreateEventUnregistered(u, et, p, x)
          => /\ "ValueError" \in create_error'
             /\ store' = store
             /\ event_queue' = event_queue
             /\ user_connections' = user_connections
             /\ events' = events]_vars

\* C21, its case: the call failed while the store held a row, the central
\* queue an event and a mailbox an event
C21_Witness ==
    /\ "ValueError" \in create_error
    /\ store # <<>>
    /\ event_queue # <<>>
    /\ \E u \in DOMAIN user_connections, s \in 1..MaxStreams :
           s \in StreamsOf(u) /\ user_connections[u][s] # <<>>

\* the rows a step deletes
DeletedRows == DOMAIN store \ DOMAIN store'

\* C22: only stale rows are deleted.  Every row a step deletes (startup
\* purge, periodic cleanup, recovery on reconnect, shutdown purge) is read or
\* has an expiry time that the clock has reached (expired_at <= now); a row
\* that is unread and whose expiry time is unset or ahead is never deleted
C22_OnlyStaleRowsDeleted ==
    [][\A i \in DeletedRows :
          store[i].is_read \/ (store[i].expired_at # None /\ store[i].expired_at <= now)]_vars

\* C22, its case: a row was deleted and an unread row whose expiry time is
\* ahead is in the table after a restart
C22_Witness ==
    /\ Cardinality(DOMAIN store) < next_id - 1
    /\ \E i \in DOMAIN store : ~store[i].is_read /\ store[i].expired_at # None
                               /\ store[i].expired_at > now
    /\ \E o \in Objs : events[o].cr = "gone"

\* C22 as stated: every row a step deletes is read or expired (is_expired:
\* the clock is past expired_at)
C22_Original ==
    [][\A i \in DeletedRows :
          store[i].is_read \/ IsExpired(store[i].expired_at, now)]_vars

\* C23: each mailbox sees each event at most once.  No mailbox holds two
\* entries of the same persisted event (same id)
C23_AtMostOncePerMailbox ==
    \A u \in DOMAIN user_connections :
        \A s \in DOMAIN user_connections[u] :
            \A k, l \in DOMAIN user_connections[u][s] :
                (k # l /\ user_connections[u][s][k].id # None)
                => user_connections[u][s][k].id # user_connections[u][s][l].id

\* C25: remove_connection is idempotent.  A call for a stream that is no
\* longer live (removed by an earlier call, or evicted by the cap) leaves
\* user_connections, users_connect_time and the per-event-type online sets
\* as they are, and a call never removes another stream of the user
C25_RemoveConnectionIdempotent ==
    [][\A u \in ConnUsers, i \in 1..MaxAdmissions :
          RemoveConnectionCall(u, i)
          => /\ admitted[u][i].sid \notin StreamsOf(u) => UNCHANGED connVars
             /\ StreamsOf(u)' = StreamsOf(u) \ {admitted[u][i].sid}]_vars

\* the stream ids add_connection ever gave to user u
FormerSids(u) == {admitted[u][i].sid : i \in DOMAIN admitted[u]}

\* C26: after remove_all_connections(u), called in any state, u is no key of
\* user_connections, none of u's stream ids is a key of users_connect_time,
\* u is in no per-event-type online set, and the entries of every other user
\* are unchanged
C26_RemoveAllConnections ==
    \A u \in ConnUsers :
        LET st1 == AfterRemoveAll(ConnState, {u})
        IN  /\ u \notin DOMAIN st1.uc
            /\ FormerSids(u) \cap DOMAIN st1.ct = {}
            /\ \A t \in DOMAIN st1.eu : u \notin st1.eu[t]
            /\ \A v \in ConnUsers \ {u} :
                   /\ v \in DOMAIN st1.uc <=> v \in DOMAIN user_connections
                   /\ v \in DOMAIN st1.uc => st1.uc[v] = user_connections[v]
                   /\ \A s \in FormerSids(v) :
                          /\ s \in DOMAIN st1.ct <=> s \in DOMAIN users_connect_time
                          /\ s \in DOMAIN st1.ct => st1.ct[s] = users_connect_time[s]
                   /\ \A t \in DOMAIN st1.eu :
                          v \in st1.eu[t] <=> v \in eventtype_connection_users[t]

\* C24: every registered stream is unregistered exactly once when its
\* connection ends.  A request whose connection has ended, on whatever exit
\* path, has invoked unregister_user_stream exactly once for its stream id
C24_UnregisteredOnce ==
    \A h \in DOMAIN hd : hd[h].pc = "ended" => hd[h].unreg = 1

\* the objects the distributor has still to handle: on the central queue or
\* in the distributor's hand
ToDistribute == Range(event_queue) \cup (IF dist_pc = "got" THEN {dist_event} ELSE {})

\* the positions of mailbox mb that hold an object written by distribution
DistributedAt(mb) == {k \in DOMAIN mb : mb[k].obj # None}

ReadOrExpired(o) == events[o].is_read \/ IsExpired(events[o].expired_at, now)

C29_EveryMailboxVisited ==
    fan.pc \in {"done", "aborted"} => fan.i = Len(fan.snap)

\* C30: the cleanup worker sleeps one full interval after every purge
\* attempt.  Between two consecutive calls of clean_up_events by the worker
\* there is a completed sleep: no call follows a call directly
C30_SleepAfterEveryPurge ==
    \A k \in 1..(Len(cleanup_log) - 1) :
       ~(cleanup_log[k] = "purge" /\ cleanup_log[k + 1] = "purge")

\* C31: recovery changes the store only by deleting expired rows it fetched.
\* A step of register_user_stream(u, t) adds no row and changes no row; every
\* row it deletes is an unread row of u and t that has expired; the fetched
\* rows whose class is not registered and that have not expired stay, and the
\* unread unexpired rows of u and t stay with is_read = false
C31_RecoveryOnlyDeletesExpired ==
    [][\A u \in ConnUsers, t \in StreamEventTypes :
          RegisterUserStream(u, t)
          => /\ DOMAIN store' \subseteq DOMAIN store
             /\ \A i \in DOMAIN store' : store'[i] = store[i]
             /\ DeletedRows \subseteq ExpiredPending(u, t)
             /\ \A i \in Qualifying(u, t) : i \in DOMAIN store' /\ ~store'[i].is_read]_vars

\* C31, its case: a stream of user u is open whose mailbox recovery left
\* empty although an unread unexpired row of u and the stream's type, of an
\* unregistered class, is in the table, and an expired row was deleted
C31_Witness ==
    \E u \in ConnUsers, t \in StreamEventTypes \ RegisteredTypes :
        /\ u \in eventtype_connection_users[t]
        /\ \E s \in StreamsOf(u) : user_connections[u][s] = <<>>
        /\ Qualifying(u, t) # {}
        /\ Cardinality(DOMAIN store) < next_id - 1

\* the keys of the wire dict of a persistent event
WireKeys == {"id", "event_type", "priority", "created_at", "payload", "is_recovered"}

\* C32: the wire dict of a raw event has the shape of the wire dict of a
\* persistent event.  The dict to_dict() returns for any event object, raw or
\* persistent, has exactly the keys id, event_type, priority, created_at,
\* payload and is_recovered
C32_WireShape == \A o \in Objs : DOMAIN ToDict(o) = WireKeys

\* C33: every read and every write of ConnectionManager state happens while
\* the ConnectionManager mutex is held.  Every access to the three maps, in
\* whatever state it is made, the online tests of create_event and send_raw_event, the
\* enumeration of shutdown and the lookup of the handler included, was made
\* by a thread that held the lock
C33_AllAccessUnderLock == \A a \in cm.acc : a.locked

\* the user an entry of a mailbox is targeted at: the target of the object
\* distribution wrote, or of the object the recovered row was made of
TargetsOf(x) ==
    IF x.obj # None THEN {events[x.obj].target_userid}
    ELSE {events[o].target_userid : o \in {p \in Objs : events[p].id0 = x.id}}

\* C34: user isolation.  Every entry of every mailbox registered under user
\* u, written by runtime distribution or by recovery, is an event whose
\* target_userid is u
C34_UserIsolation ==
    \A u \in DOMAIN user_connections : \A s \in DOMAIN user_connections[u] :
       \A k \in DOMAIN user_connections[u][s] :
          TargetsOf(user_connections[u][s][k]) = {u}

\* C34, its case: two users are online, a mailbox of one holds an event
\* written by distribution and a mailbox of the other a recovered event
C34_Witness ==
    \E u, v \in DOMAIN user_connections :
       /\ u # v
       /\ \E s \in DOMAIN user_connections[u] : \E k \in DOMAIN user_connections[u][s] :
             user_connections[u][s][k].obj # None
       /\ \E s \in DOMAIN user_connections[v] : \E k \in DOMAIN user_connections[v][s] :
             user_connections[v][s][k].is_recovered

\* C35: after every completed ConnectionManager operation every key of
\* user_connections maps to a non-empty set of streams, so the online test
\* `user in user_connections` of create_event and send_raw_event is true
\* exactly when the user has at least one registered mailbox.  Whenever no
\* operation is inside the ConnectionManager every key has a stream, and
\* every online test, in whatever state it is made, is true exactly when the
\* user has a mailbox
C35_KeysHaveStreams ==
    /\ cm.lock = None => \A u \in DOMAIN user_connections : DOMAIN user_connections[u] # {}
    /\ \A a \in cm.acc :
          a.op \in {"create_event", "send_raw_event"} => (a.online <=> a.mailboxes > 0)

\* the stream ids present in user_connections
LiveSids == UNION {DOMAIN user_connections[u] : u \in DOMAIN user_connections}

\* C36: no orphaned connect-time entries.  After any sequence of
\* add_connection (with its evictions at the cap), remove_connection by the
\* holders of the streams and remove_all_connections, the keys of
\* users_connect_time are exactly the stream ids present in user_connections
C36_NoOrphanedConnectTimes == DOMAIN users_connect_time = LiveSids

\* C36, its case: a user was admitted beyond the cap (a stream was evicted),
\* had streams removed and is offline, while the stream of another user is
\* the only one with a connect time
C36_Witness ==
    \E u, v \in ConnUsers :
       /\ Len(admitted[u]) > MaxConnectionsPerUser
       /\ u \in removed /\ ~IsOnline(u)
       /\ v # u /\ StreamsOf(v) # {}
       /\ DOMAIN users_connect_time = StreamsOf(v)

\* the live streams of user u that were registered with event type t
LiveStreamsOfType(u, t) ==
    {a \in Range(admitted[u]) : a.sid \in StreamsOf(u) /\ a.et = t}

\* C37: the per-event-type online index is exact.  After any sequence of
\* registrations, deregistrations and evictions over several event types,
\* user u is in get_eventtype_users(t) if and only if u has at least one live
\* stream that was registered with event type t
C37_OnlineIndexExact ==
    \A u \in ConnUsers, t \in StreamEventTypes :
       u \in GetEventtypeUsers(t) <=> LiveStreamsOfType(u, t) # {}

\* create_event has returned for every object made, the distributor has
\* nothing left to handle and every register_user_stream has returned
\* where a store failure can leave _recover_user_events: the query (lines
\* 314-324) or the commit (line 350); both are outside the per-row try
RecoveryFailures == {"execute", "commit"}

\* lines 433-434 when the store fails: _recover_user_events raises, nothing in
\* register_user_stream catches it, and the handler's request ends with the
\* exception; a failing query leaves the mailboxes as they were, a failing
\* commit comes after the rows were written into them and keeps the table
RaceRecoverRaises(r, at) ==
    /\ reg[r].pc = "added"
    /\ user_connections' =
          IF at = "commit"
          THEN RecoveredConnections(user_connections, reg[r].u, reg[r].et)
          ELSE user_connections
    /\ reg' = [reg EXCEPT ![r].pc = "raised"]
    /\ UNCHANGED <<store, users_connect_time, eventtype_connection_users, next_sid>>
    /\ RaceFrame

NextRegisterFailure ==
    \/ \E u \in ConnUsers, et \in RegisteredTypes, p \in Priorities : CreateEvent(u, et, p, None)
    \/ \E o \in Objs : CreateCheckOnline(o)
    \/ \E o \in Objs : CreatePut(o)
    \/ \E r \in Registrations, u \in ConnUsers, et \in EventTypes : RaceAddConnection(r, u, et)
    \/ \E r \in Registrations : RaceRecover(r)
    \/ DistGet
    \/ DistHandle
    \/ \E r \in Registrations, at \in RecoveryFailures : RaceRecoverRaises(r, at)

SpecRegisterFailure == InitRace /\ [][NextRegisterFailure]_vars

RaceOver ==
    /\ \A o \in Objs : events[o].cr = "ret"
    /\ ToDistribute = {}
    /\ \A r \in DOMAIN reg : reg[r].pc = "returned"

\* C38: no event is lost in the connect race.  For every interleaving of a
\* create_event(t, u) with a register_user_stream(u, t), once both have
\* returned and the distributor has emptied the central queue, the mailbox
\* the registration opened holds the event (written by distribution, by
\* recovery, or by both), provided the mailbox has room for both writes of
\* every event
C38_NoLossInConnectRace ==
    (RaceOver /\ 2 * Len(events) <= MaxEventsPerStream) =>
       \A r \in DOMAIN reg : \A o \in Objs :
          (events[o].target_userid = reg[r].u /\ events[o].event_type = reg[r].et)
          => events[o].id0 \in IdsOf(user_connections[reg[r].u][reg[r].sid])

\* C38, its case: the race is over and the event, made for the registering
\* user before the recovery read the table and tested online through an
\* older stream, is in the new mailbox twice: once recovered, once distributed
C38_Witness ==
    /\ RaceOver /\ 2 * Len(events) <= MaxEventsPerStream
    /\ \E r \in DOMAIN reg : \E o \in Objs :
          LET mb == user_connections[reg[r].u][reg[r].sid]
          IN  /\ events[o].target_userid = reg[r].u
              /\ \E k, l \in DOMAIN mb : mb[k].is_recovered /\ mb[l].obj = o

RECURSIVE ByPriorityThenAge(_)
\* the rows of the set S by priority descending (CRITICAL > HIGH > NORMAL >
\* LOW), then created_at ascending
ByPriorityThenAge(S) ==
    IF S = {} THEN <<>>
    ELSE LET first == CHOOSE i \in S : \A j \in S \ {i} : HigherThenOlder(i, j)
         IN  <<first>> \o ByPriorityThenAge(S \ {first})

\* C39: recovery of more rows than the mailbox holds.  When more than
\* max_events_per_stream rows qualify for the recovery of register_user_stream(u, t),
\* the new mailbox holds the last max_events_per_stream rows of the order
\* priority descending, created_at ascending: the highest-priority, oldest
\* rows are the ones dropped
C39_OverflowingRecoveryKeepsLast ==
    [][\A u \in ConnUsers, t \in StreamEventTypes :
          (RegisterUserStream(u, t) /\ Cardinality(Qualifying(u, t)) > MaxEventsPerStream)
          => LET mb == user_connections'[u][next_sid]
             IN  [k \in DOMAIN mb |-> mb[k].id]
                    = LastOf(ByPriorityThenAge(Qualifying(u, t)), MaxEventsPerStream)]_vars

\* C40: register_user_stream leaves no connection behind on failure.  When
\* the call has ended with the store failure of its recovery, the mailbox it
\* added is no longer registered in the ConnectionManager, so every mailbox
\* registered by a call that has ended belongs to a stream id that was
\* returned to a handler
C40_NoConnectionLeftOnFailure ==
    \A r \in DOMAIN reg :
       reg[r].pc = "raised" =>
          /\ reg[r].sid \notin DOMAIN users_connect_time
          /\ \A u \in DOMAIN user_connections : reg[r].sid \notin DOMAIN user_connections[u]

====
